---- MODULE Spec2Model ----
(***************************************************************************)
(* Lifecycle orchestration of a Black Duck instance by blackduck.Creater   *)
(* (pkg/blackduck/creater.go): CreateHub, Start, Stop and the database     *)
(* bootstrap, as a step machine over the cluster calls they make.          *)
(*                                                                         *)
(* One caller thread issues the operations one after the other on one       *)
(* instance; the spec of the instance is fixed, except for the state tag,  *)
(* which the caller sets anew for every operation.  Every cluster call is  *)
(* an action whose outcome (success, error, value) the platform chooses.   *)
(***************************************************************************)
EXTENDS Integers, Sequences, FiniteSets, TLC

\* ------------------------------------------------------------------------
\* Bounds of the model
\* ------------------------------------------------------------------------

\* number of operations the caller issues on the instance
MaxCalls == 2

\* number of cluster calls that may answer with an error in one behaviour
MaxFaults == 2

\* stands for math.MaxInt32 in the credential retry loop of initPostgres
MaxDbInitTry == 2

\* ------------------------------------------------------------------------
\* Program constants
\* ------------------------------------------------------------------------

\* attempts of getPVCVolumeName
PVCAttempts == 60

\* attempts of getLoadBalancerIPAddress
LoadBalancerAttempts == 10

\* attempts of getNodePortIPAddress
NodePortAttempts == 10

\* ------------------------------------------------------------------------
\* Strings with case: a string is a sequence of one-letter strings
\* ------------------------------------------------------------------------

UpperToLower ==
    [c \in {"P", "E", "N", "D", "I", "G", "R", "U"} |->
        CASE c = "P" -> "p" [] c = "E" -> "e" [] c = "N" -> "n"
          [] c = "D" -> "d" [] c = "I" -> "i" [] c = "G" -> "g"
          [] c = "R" -> "r" [] c = "U" -> "u"]

FoldChar(c) == IF c \in DOMAIN UpperToLower THEN UpperToLower[c] ELSE c

\* a comparison that does not fold the case
EqualFoldExact(a, b) == a = b

\* strings.EqualFold
EqualFold(a, b) ==
    /\ Len(a) = Len(b)
    /\ \A k \in 1..Len(a) : FoldChar(a[k]) = FoldChar(b[k])

pending == <<"p", "e", "n", "d", "i", "n", "g">>

\* the state tags the caller passes in BlackduckSpec.State
States ==
    { pending,
      <<"P", "e", "n", "d", "i", "n", "G">>,
      <<"r", "u", "n", "n", "i", "n", "g">> }

\* ------------------------------------------------------------------------
\* Inputs
\* ------------------------------------------------------------------------

\* the flavors containers.GetContainersFlavor knows
KnownSizes == {"small", "medium", "large", "x-large"}

\* containers.GetContainersFlavor: "nil" for an unknown size tag
GetContainersFlavor(size) == IF size \in KnownSizes THEN size ELSE "nil"

Sizes == {"small", "huge"}

PVCLists == { <<>>, <<"pvc1", "pvc2">> }

\* v1.BlackduckSpec, the fields the orchestration reads
BlackduckSpecs ==
    [ Size : Sizes,
      PersistentStorage : BOOLEAN,
      PVC : PVCLists,
      ExternalPostgres : BOOLEAN,     \* TRUE: createHub.ExternalPostgres != nil
      State : States,
      DbPrototype : {"", "src"} ]

\* the batches a deployer applies or removes
Batches == {"config", "postgres", "hub", "expose"}

\* the batch hc.init puts into CreateHub's first deployer
InitBatch == "config"

EmptyMap == [x \in {} |-> ""]

NoRet == [ip |-> "", pvc |-> EmptyMap, fatal |-> FALSE, err |-> "none"]

\* ------------------------------------------------------------------------
\* State
\* ------------------------------------------------------------------------

VARIABLES
    routeClient,     \* hc.routeClient != nil
    kubeConfigOk,    \* horizon.NewDeployer(hc.KubeConfig) succeeds
    applied,         \* batches applied in the cluster
    op,              \* the operation in progress, or the last one
    spec,            \* the spec of the instance, the createHub argument
    pc,              \* position in the code
    trace,           \* the calls the operation has made so far, in order
    ret,             \* what the operation returned
    pvcVolumeNames,  \* CreateHub's pvcVolumeNames
    ipAddress,       \* CreateHub's ipAddress
    pvcIdx,          \* index of the claim CreateHub is resolving
    i,               \* attempt counter of the current poll
    dbInitTry,       \* initPostgres' dbInitTry
    calls,           \* operations issued so far
    faults,          \* errors the platform has answered so far
    initCount,       \* runs of InitDatabase / CloneJob with persistent storage
    namespace,       \* the namespace of the instance, as the platform has it
    tick,            \* flips with every time.Sleep of DeleteHub's loop
    tpc,             \* where a Start and a Stop that run side by side are
    tret             \* what each of the two has returned

vars ==
    << routeClient, kubeConfigOk, applied, op, spec, pc, trace, ret,
       pvcVolumeNames, ipAddress, pvcIdx, i, dbInitTry, calls, faults,
       initCount, namespace, tick, tpc, tret >>

creater == << routeClient, kubeConfigOk >>
cluster == << namespace, tick >>
threads == << tpc, tret >>

\* the two calls that run side by side
Threads == {"Start", "Stop"}
locals == << pvcVolumeNames, ipAddress, pvcIdx, i, dbInitTry >>

Init ==
    /\ routeClient \in BOOLEAN
    /\ kubeConfigOk \in BOOLEAN
    /\ applied = {}
    /\ op = "none"
    /\ spec \in {s \in BlackduckSpecs : s.State = pending}
    /\ pc = "idle"
    /\ trace = <<>>
    /\ ret = NoRet
    /\ pvcVolumeNames = EmptyMap
    /\ ipAddress = ""
    /\ pvcIdx = 1
    /\ i = 0
    /\ dbInitTry = 0
    /\ calls = 0
    /\ faults = 0
    /\ initCount = 0
    /\ namespace = "present"
    /\ tick = FALSE
    /\ tpc = [t \in Threads |-> "done"]
    /\ tret = [t \in Threads |-> "none"]

\* ------------------------------------------------------------------------
\* Helpers
\* ------------------------------------------------------------------------

\* the platform answers a call with success, or with an error
Outcomes == {"ok", "err"}

\* an error answer uses up one of the faults of the behaviour
Fault(o) ==
    /\ o = "err" => faults < MaxFaults
    /\ faults' = IF o = "err" THEN faults + 1 ELSE faults

Log(e) == trace' = Append(trace, e)

\* the operation in progress returns to the caller
Return(ip, pvc, fatal, err) ==
    /\ pc' = "idle"
    /\ ret' = [ip |-> ip, pvc |-> pvc, fatal |-> fatal, err |-> err]

Goto(l) == pc' = l /\ ret' = ret

\* return "", nil, true, err (lines 112, 120, 127, 139, 145, 152, 158)
FatalNot(err) == Return("", EmptyMap, FALSE, err)

Fatal(err) == Return("", EmptyMap, TRUE, err)

\* return "", pvcVolumeNames, false, err (lines 178, 191)
ResolveFailedFatal(err) == Return("", pvcVolumeNames, TRUE, err)

ResolveFailed(err) == Return("", pvcVolumeNames, FALSE, err)

\* a variant of StartReturn with a CreateHub that goes on after a failed Start
StartReturnIgnoreErr(err) ==
    IF op = "CreateHub"
    THEN IF kubeConfigOk
         THEN Goto("CreateHub_RunExpose")
         ELSE Fatal("NewDeployer")
    ELSE Return("", EmptyMap, FALSE, err)

\* Start returns err: to the caller, or into CreateHub (lines 137-146)
StartReturn(err) ==
    IF op = "CreateHub"
    THEN IF err # "nil"
         THEN Fatal(err)
         ELSE IF kubeConfigOk
              THEN Goto("CreateHub_RunExpose")
              ELSE Fatal("NewDeployer")
    ELSE Return("", EmptyMap, FALSE, err)

\* deployer.Run() of batch b: applied on success, an error otherwise
Run(b, o) == applied' = IF o = "ok" THEN applied \cup {b} ELSE applied

\* ------------------------------------------------------------------------
\* The caller
\* ------------------------------------------------------------------------

\* the caller issues operation o on the instance, with the state tag st in
\* the spec it passes
Call(o, st, l) ==
    /\ pc = "idle"
    /\ calls < MaxCalls
    /\ calls' = calls + 1
    /\ op' = o
    /\ spec' = [spec EXCEPT !.State = st]
    /\ pc' = l
    /\ trace' = <<>>
    /\ ret' = NoRet
    /\ pvcVolumeNames' = EmptyMap
    /\ ipAddress' = ""
    /\ pvcIdx' = 1
    /\ i' = 0
    /\ dbInitTry' = 0
    /\ UNCHANGED << creater, threads, cluster, applied, faults, initCount >>

CallCreateHub == \E st \in States : Call("CreateHub", st, "CreateHub")

CallStop == \E st \in States : Call("Stop", st, "Stop_getHubDeployer")

CallStart == \E st \in States : Call("Start", st, "Start_getHubConfigDeployer")

CallDeleteHub == Call("DeleteHub", spec.State, "DeleteHub")

\* ------------------------------------------------------------------------
\* CreateHub
\* ------------------------------------------------------------------------

\* a flavor check that lets every size tag through
InvalidFlavorNever(s) == FALSE

\* lines 116-119: hubContainerFlavor == nil
InvalidFlavor(s) == GetContainersFlavor(s.Size) = "nil"

\* lines 110-128: the deployer, the flavor, hc.init
CreateHub ==
    /\ pc = "CreateHub"
    /\ IF ~kubeConfigOk
       THEN /\ Fatal("NewDeployer")
            /\ UNCHANGED << trace, faults >>
       ELSE IF InvalidFlavor(spec)
            THEN /\ Fatal("flavor")
                 /\ UNCHANGED << trace, faults >>
            ELSE \E o \in Outcomes :
                    /\ Fault(o)
                    /\ IF o = "err"
                       THEN Fatal("init") /\ Log("init_err")
                       ELSE Goto("CreateHub_Run") /\ Log("init")
    /\ UNCHANGED << creater, threads, cluster, applied, op, spec, locals, calls, initCount >>

\* lines 130-137: the error of deployer.Run() is logged, Start is called
CreateHub_Run ==
    /\ pc = "CreateHub_Run"
    /\ \E o \in Outcomes :
          /\ Fault(o)
          /\ Run(InitBatch, o)
          /\ Log(IF o = "ok" THEN "Run_init" ELSE "Run_init_err")
    /\ Goto("Start_getHubConfigDeployer")
    /\ UNCHANGED << creater, threads, cluster, op, spec, locals, calls, initCount >>

\* a variant of AfterRunExpose that does not wait for the pods
AfterRunExposeSkipPods(o) ==
    IF o = "err"
    THEN Fatal("Run_expose") /\ Log("Run_expose_err")
    ELSE Goto("CreateHub_Routes") /\ Log("Run_expose")

\* lines 151-156: an error of the exposure batch is fatal, else the pods are
\* waited for
AfterRunExpose(o) ==
    IF o = "err"
    THEN Fatal("Run_expose") /\ Log("Run_expose_err")
    ELSE Goto("CreateHub_ValidatePods") /\ Log("Run_expose")

\* lines 148-153: apply the exposure batch
CreateHub_RunExpose ==
    /\ pc = "CreateHub_RunExpose"
    /\ \E o \in Outcomes :
          /\ Fault(o)
          /\ Run("expose", o)
          /\ AfterRunExpose(o)
    /\ UNCHANGED << creater, threads, cluster, op, spec, locals, calls, initCount >>

\* a variant of ResolvePVCs that looks the claims up without persistent storage
ResolvePVCsAnyStorage ==
    IF Len(spec.PVC) > 0
    THEN Goto("getPVCVolumeName")
    ELSE Goto("CreateHub_Routes")

\* lines 161-164: on to the first claim if there is one, else to the route
ResolvePVCs ==
    IF spec.PersistentStorage /\ Len(spec.PVC) > 0
    THEN Goto("getPVCVolumeName")
    ELSE Goto("CreateHub_Routes")

\* a check of the pods whose error is dropped
AfterValidatePodsIgnoreErr(o) ==
    /\ Log(IF o = "err" THEN "ValidatePods_err" ELSE "ValidatePods")
    /\ ResolvePVCs

\* lines 157-159
AfterValidatePods(o) ==
    IF o = "err"
    THEN Fatal("ValidatePods") /\ Log("ValidatePods_err")
    ELSE Log("ValidatePods") /\ ResolvePVCs

\* lines 155-164: wait for the pods
CreateHub_ValidatePods ==
    /\ pc = "CreateHub_ValidatePods"
    /\ \E o \in Outcomes : Fault(o) /\ AfterValidatePods(o)
    /\ UNCHANGED << creater, threads, cluster, applied, op, spec, locals, calls, initCount >>

\* the volume names a claim can show; "" until the platform has bound it
VolumeNames == {"", "pv1", "pv2"}

\* a variant of MoreAttempts that lets a poll make one attempt more
MoreAttemptsOneMore(n, max) == n < max

\* the loop conditions of lines 410, 429 and 447: after attempt number n + 1
\* there is another attempt
MoreAttempts(n, max) == n + 1 < max

\* a variant of VolumeBound that takes any answer for a volume name
VolumeBoundAlways(v) == TRUE

\* line 419: the claim is bound once its volume name is not empty
VolumeBound(v) == v # ""

\* a variant of PVCLookupFailed that looks again after an error
PVCLookupFailedRetry ==
    /\ Goto("getPVCVolumeName")
    /\ Log("getPVCVolumeName_err")
    /\ UNCHANGED << pvcVolumeNames, pvcIdx, i >>

\* lines 413-415 and 166-168: an error of GetPVC ends the poll and CreateHub
PVCLookupFailed ==
    /\ Return("", EmptyMap, FALSE, "GetPVC")
    /\ Log("getPVCVolumeName_err")
    /\ UNCHANGED << pvcVolumeNames, pvcIdx, i >>

\* one attempt of getPVCVolumeName (lines 409-426) for claim spec.PVC[pvcIdx],
\* and what CreateHub does with its result (lines 164-171)
getPVCVolumeName ==
    /\ pc = "getPVCVolumeName"
    /\ i < PVCAttempts
    /\ \/ \* GetPVC fails
          /\ Fault("err")
          /\ PVCLookupFailed
       \/ \E v \in VolumeNames :
             /\ UNCHANGED faults
             /\ IF ~VolumeBound(v)
                THEN /\ i' = i + 1
                     /\ UNCHANGED << pvcVolumeNames, pvcIdx >>
                     /\ IF MoreAttempts(i, PVCAttempts)
                        THEN Goto("getPVCVolumeName") /\ UNCHANGED trace
                        ELSE /\ Return("", EmptyMap, FALSE, "timeout")
                             /\ Log("getPVCVolumeName_timeout")
                ELSE /\ pvcVolumeNames' = (spec.PVC[pvcIdx] :> v) @@ pvcVolumeNames
                     /\ Log("getPVCVolumeName")
                     /\ i' = 0
                     /\ pvcIdx' = pvcIdx + 1
                     /\ IF pvcIdx < Len(spec.PVC)
                        THEN Goto("getPVCVolumeName")
                        ELSE Goto("CreateHub_Routes")
    /\ UNCHANGED << creater, threads, cluster, applied, op, spec, ipAddress, dbInitTry, calls,
                    initCount >>

\* the hosts a route can have
Hosts == {"", "host"}

\* lines 173-182: the OpenShift route, when there is a route client
CreateHub_Routes ==
    /\ pc = "CreateHub_Routes"
    /\ IF routeClient
       THEN \/ /\ Fault("err")
               /\ ResolveFailed("CreateOpenShiftRoutes")
               /\ Log("CreateOpenShiftRoutes_err")
               /\ UNCHANGED ipAddress
            \/ \E h \in Hosts :
                  /\ UNCHANGED faults
                  /\ ipAddress' = h
                  /\ Log(IF h = "" THEN "CreateOpenShiftRoutes_nohost"
                                   ELSE "CreateOpenShiftRoutes")
                  /\ Goto("CreateHub_Sleep")
       ELSE /\ Goto("CreateHub_Sleep")
            /\ UNCHANGED << ipAddress, trace, faults >>
    /\ UNCHANGED << creater, threads, cluster, applied, op, spec, pvcVolumeNames, pvcIdx, i,
                    dbInitTry, calls, initCount >>

\* a variant of AddressMissing that looks the services up in any case
AddressMissingAlways(ip) == TRUE

\* line 186: strings.EqualFold(ipAddress, "")
AddressMissing(ip) == ip = ""

\* lines 184-186 and 195-197: the settling delay, then the address at hand
CreateHub_Sleep ==
    /\ pc = "CreateHub_Sleep"
    /\ Log("Sleep")
    /\ IF AddressMissing(ipAddress)
       THEN Goto("getLoadBalancerIPAddress")
       ELSE Return(ipAddress, pvcVolumeNames, FALSE, "nil")
    /\ UNCHANGED << creater, threads, cluster, applied, op, spec, locals, calls, faults,
                    initCount >>

\* the addresses a service can show
Addresses == {"", "10.0.0.1"}

\* a variant of LoadBalancerFound that asks the node port as well
LoadBalancerFoundThenNodePort(a) ==
    /\ ipAddress' = a
    /\ Log("getLoadBalancerIPAddress")
    /\ Goto("getNodePortIPAddress")

\* lines 437-439, 187-188 and 197: the ingress address is what CreateHub
\* returns
LoadBalancerFound(a) ==
    /\ ipAddress' = a
    /\ Log("getLoadBalancerIPAddress")
    /\ Return(a, pvcVolumeNames, FALSE, "nil")

\* one attempt of getLoadBalancerIPAddress (lines 428-444), and lines 187-189:
\* any error of it sends CreateHub to the node port
getLoadBalancerIPAddress ==
    /\ pc = "getLoadBalancerIPAddress"
    /\ i < LoadBalancerAttempts
    /\ \/ \* GetService fails
          /\ Fault("err")
          /\ Log("getLoadBalancerIPAddress_err")
          /\ i' = 0
          /\ Goto("getNodePortIPAddress")
          /\ UNCHANGED ipAddress
       \/ \* no ingress yet
          /\ UNCHANGED << faults, ipAddress >>
          /\ IF MoreAttempts(i, LoadBalancerAttempts)
             THEN /\ i' = i + 1
                  /\ Goto("getLoadBalancerIPAddress")
                  /\ UNCHANGED trace
             ELSE /\ i' = 0
                  /\ Log("getLoadBalancerIPAddress_timeout")
                  /\ Goto("getNodePortIPAddress")
       \/ \* Ingress[0].IP
          \E a \in Addresses :
             /\ UNCHANGED << faults, i >>
             /\ LoadBalancerFound(a)
    /\ UNCHANGED << creater, threads, cluster, applied, op, spec, pvcVolumeNames, pvcIdx,
                    dbInitTry, calls, initCount >>

\* one attempt of getNodePortIPAddress (lines 446-462), and lines 189-197
getNodePortIPAddress ==
    /\ pc = "getNodePortIPAddress"
    /\ i < NodePortAttempts
    /\ \/ \* GetService fails
          /\ Fault("err")
          /\ Log("getNodePortIPAddress_err")
          /\ ResolveFailed("GetService")
          /\ UNCHANGED << ipAddress, i >>
       \/ \E a \in Addresses :
             /\ UNCHANGED faults
             /\ IF a = ""
                THEN /\ i' = i + 1
                     /\ UNCHANGED ipAddress
                     /\ IF MoreAttempts(i, NodePortAttempts)
                        THEN Goto("getNodePortIPAddress") /\ UNCHANGED trace
                        ELSE /\ ResolveFailed("timeout")
                             /\ Log("getNodePortIPAddress_timeout")
                ELSE /\ ipAddress' = a
                     /\ Log("getNodePortIPAddress")
                     /\ Return(a, pvcVolumeNames, FALSE, "nil")
                     /\ UNCHANGED i
    /\ UNCHANGED << creater, threads, cluster, applied, op, spec, pvcVolumeNames, pvcIdx,
                    dbInitTry, calls, initCount >>

\* ------------------------------------------------------------------------
\* Start
\* ------------------------------------------------------------------------

\* getHubConfigDeployer, lines 344-369: the error of GetDefaultPasswords is
\* assigned and never read
Start_getHubConfigDeployer ==
    /\ pc = "Start_getHubConfigDeployer"
    /\ IF ~kubeConfigOk
       THEN /\ StartReturn("NewDeployer")
            /\ UNCHANGED << trace, faults >>
       ELSE \E o \in Outcomes :
               /\ Fault(o)
               /\ Log(IF o = "ok" THEN "GetDefaultPasswords"
                                  ELSE "GetDefaultPasswords_err")
               /\ Goto("Start_RunConfig")
    /\ UNCHANGED << creater, threads, cluster, applied, op, spec, locals, calls, initCount >>

\* a Start that goes from the config batch straight to the application
AfterRunConfigSkipPostgres(o) ==
    IF o = "err"
    THEN StartReturn("Run_config") /\ Log("Run_config_err")
    ELSE Log("Run_config") /\ Goto("Start_getHubDeployer")

\* lines 208-217: the error of the config batch; else postgres, when no
\* external database is given, with getPostgresDeployer's flavor check
AfterRunConfig(o) ==
    IF o = "err"
    THEN StartReturn("Run_config") /\ Log("Run_config_err")
    ELSE /\ Log("Run_config")
         /\ IF spec.ExternalPostgres
            THEN Goto("Start_getHubDeployer")
            ELSE IF GetContainersFlavor(spec.Size) = "nil"
                 THEN StartReturn("flavor")
                 ELSE Goto("Start_RunPostgres")

\* lines 207-217: apply the config batch
Start_RunConfig ==
    /\ pc = "Start_RunConfig"
    /\ \E o \in Outcomes : Fault(o) /\ Run("config", o) /\ AfterRunConfig(o)
    /\ UNCHANGED << creater, threads, cluster, op, spec, locals, calls, initCount >>

\* a condition that looks at the state tag only
NeedsInitPendingOnly(s) == EqualFold(s.State, pending)

\* line 226
NeedsInit(s) ==
    \/ ~s.PersistentStorage
    \/ s.PersistentStorage /\ EqualFold(s.State, pending)

\* a Start that drops the error of the database batch
AfterRunPostgresIgnoreErr(o) ==
    /\ Log(IF o = "err" THEN "Run_postgres_err" ELSE "Run_postgres")
    /\ IF NeedsInit(spec)
       THEN Goto("initPostgres")
       ELSE Goto("Start_getHubDeployer")

\* lines 221-232: the error of the database batch; else initialize the
\* database if needed
AfterRunPostgres(o) ==
    IF o = "err"
    THEN StartReturn("Run_postgres") /\ Log("Run_postgres_err")
    ELSE /\ Log("Run_postgres")
         /\ IF NeedsInit(spec)
            THEN Goto("initPostgres")
            ELSE Goto("Start_getHubDeployer")

\* lines 219-223: apply the database batch
Start_RunPostgres ==
    /\ pc = "Start_RunPostgres"
    /\ \E o \in Outcomes : Fault(o) /\ Run("postgres", o) /\ AfterRunPostgres(o)
    /\ UNCHANGED << creater, threads, cluster, op, spec, locals, calls, initCount >>

\* lines 286-295: fetch the default passwords until it succeeds; when the
\* tries are used up the loop ends all the same and the wait follows
initPostgres ==
    /\ pc = "initPostgres"
    /\ \E o \in Outcomes :
          /\ Fault(o)
          /\ IF o = "ok"
             THEN /\ Log("initPostgres_GetDefaultPasswords")
                  /\ Goto("initPostgres_WaitForServiceEndpointReady")
                  /\ UNCHANGED dbInitTry
             ELSE /\ dbInitTry' = dbInitTry + 1
                  /\ IF dbInitTry + 1 < MaxDbInitTry
                     THEN Goto("initPostgres") /\ UNCHANGED trace
                     ELSE /\ Log("initPostgres_GetDefaultPasswords_err")
                          /\ Goto("initPostgres_WaitForServiceEndpointReady")
    /\ UNCHANGED << creater, threads, cluster, applied, op, spec, pvcVolumeNames, ipAddress,
                    pvcIdx, i, calls, initCount >>

\* a variant of NoPrototype that never sees a database to clone
NoPrototypeAlways(s) == TRUE

\* line 303: len(createHub.DbPrototype) == 0
NoPrototype(s) == s.DbPrototype = ""

\* lines 297-303: wait for the postgres endpoint, then initialize or clone
initPostgres_WaitForServiceEndpointReady ==
    /\ pc = "initPostgres_WaitForServiceEndpointReady"
    /\ \E o \in Outcomes :
          /\ Fault(o)
          /\ IF o = "err"
             THEN /\ StartReturn("WaitForServiceEndpointReady")
                  /\ Log("WaitForServiceEndpointReady_err")
             ELSE /\ Log("WaitForServiceEndpointReady")
                  /\ IF NoPrototype(spec)
                     THEN Goto("initPostgres_InitDatabase")
                     ELSE Goto("initPostgres_GetHubDBPassword")
    /\ UNCHANGED << creater, threads, cluster, applied, op, spec, locals, calls, initCount >>

\* InitDatabase / CloneJob has run once more on an instance that keeps its data
CountInit ==
    initCount' = IF spec.PersistentStorage THEN initCount + 1 ELSE initCount

\* lines 304-308
initPostgres_InitDatabase ==
    /\ pc = "initPostgres_InitDatabase"
    /\ CountInit
    /\ \E o \in Outcomes :
          /\ Fault(o)
          /\ IF o = "err"
             THEN StartReturn("InitDatabase") /\ Log("InitDatabase_err")
             ELSE Goto("Start_getHubDeployer") /\ Log("InitDatabase")
    /\ UNCHANGED << creater, threads, cluster, applied, op, spec, locals, calls >>

\* a variant of AfterGetHubDBPassword that clones whatever the fetch gave
AfterGetHubDBPasswordIgnoreErr(o) ==
    /\ Goto("initPostgres_CloneJob")
    /\ Log(IF o = "err" THEN "GetHubDBPassword_err" ELSE "GetHubDBPassword")

\* lines 311-314: the error of GetHubDBPassword is returned, else CloneJob
AfterGetHubDBPassword(o) ==
    IF o = "err"
    THEN StartReturn("GetHubDBPassword") /\ Log("GetHubDBPassword_err")
    ELSE Goto("initPostgres_CloneJob") /\ Log("GetHubDBPassword")

\* lines 310-313
initPostgres_GetHubDBPassword ==
    /\ pc = "initPostgres_GetHubDBPassword"
    /\ \E o \in Outcomes :
          /\ Fault(o)
          /\ AfterGetHubDBPassword(o)
    /\ UNCHANGED << creater, threads, cluster, applied, op, spec, locals, calls, initCount >>

\* lines 314-319
initPostgres_CloneJob ==
    /\ pc = "initPostgres_CloneJob"
    /\ CountInit
    /\ \E o \in Outcomes :
          /\ Fault(o)
          /\ IF o = "err"
             THEN StartReturn("CloneJob") /\ Log("CloneJob_err")
             ELSE Goto("Start_getHubDeployer") /\ Log("CloneJob")
    /\ UNCHANGED << creater, threads, cluster, applied, op, spec, locals, calls >>

\* getHubDeployer, lines 371-407, called at line 235: the error of
\* addAnyUIDToServiceAccount is logged and the deployer is returned
Start_getHubDeployer ==
    /\ pc = "Start_getHubDeployer"
    /\ IF ~kubeConfigOk
       THEN /\ StartReturn("NewDeployer")
            /\ UNCHANGED << trace, faults >>
       ELSE IF GetContainersFlavor(spec.Size) = "nil"
            THEN /\ StartReturn("flavor")
                 /\ UNCHANGED << trace, faults >>
            ELSE \E o \in Outcomes :
                    /\ Fault(o)
                    /\ Log(IF o = "ok" THEN "addAnyUIDToServiceAccount"
                                       ELSE "addAnyUIDToServiceAccount_err")
                    /\ Goto("Start_RunHub")
    /\ UNCHANGED << creater, threads, cluster, applied, op, spec, locals, calls, initCount >>

\* line 239
Start_RunHub ==
    /\ pc = "Start_RunHub"
    /\ \E o \in Outcomes :
          /\ Fault(o)
          /\ Run("hub", o)
          /\ IF o = "err"
             THEN StartReturn("Run_hub") /\ Log("Run_hub_err")
             ELSE StartReturn("nil") /\ Log("Run_hub")
    /\ UNCHANGED << creater, threads, cluster, op, spec, locals, calls, initCount >>

\* ------------------------------------------------------------------------
\* Stop
\* ------------------------------------------------------------------------

\* a variant of Undeploy that leaves the batch on the cluster
UndeployKeeps(b, o) == applied' = applied

\* deployer.Undeploy() of batch b: removed on success, an error otherwise
Undeploy(b, o) == applied' = IF o = "ok" THEN applied \ {b} ELSE applied

\* getHubDeployer, lines 371-407, called at line 245
Stop_getHubDeployer ==
    /\ pc = "Stop_getHubDeployer"
    /\ IF ~kubeConfigOk
       THEN /\ Return("", EmptyMap, FALSE, "NewDeployer")
            /\ UNCHANGED << trace, faults >>
       ELSE IF GetContainersFlavor(spec.Size) = "nil"
            THEN /\ Return("", EmptyMap, FALSE, "flavor")
                 /\ UNCHANGED << trace, faults >>
            ELSE \E o \in Outcomes :
                    /\ Fault(o)
                    /\ Log(IF o = "ok" THEN "addAnyUIDToServiceAccount"
                                       ELSE "addAnyUIDToServiceAccount_err")
                    /\ Goto("Stop_UndeployHub")
    /\ UNCHANGED << creater, threads, cluster, applied, op, spec, locals, calls, initCount >>

\* a variant of AfterUndeployHub that goes on to the config batch at once
AfterUndeployHubSkipPostgres(o) ==
    IF o = "err"
    THEN /\ Return("", EmptyMap, FALSE, "Undeploy_hub")
         /\ Log("Undeploy_hub_err")
    ELSE /\ Log("Undeploy_hub")
         /\ Goto("Stop_getHubConfigDeployer")

\* lines 251-260: an error of the removal is returned; else the database
\* batch is next unless an external database is given
AfterUndeployHub(o) ==
    IF o = "err"
    THEN /\ Return("", EmptyMap, FALSE, "Undeploy_hub")
         /\ Log("Undeploy_hub_err")
    ELSE /\ Log("Undeploy_hub")
         /\ IF spec.ExternalPostgres
            THEN Goto("Stop_getHubConfigDeployer")
            ELSE IF GetContainersFlavor(spec.Size) = "nil"
                 THEN Return("", EmptyMap, FALSE, "flavor")
                 ELSE Goto("Stop_UndeployPostgres")

\* lines 250-260: remove the application batch, then the deployer of postgres
Stop_UndeployHub ==
    /\ pc = "Stop_UndeployHub"
    /\ \E o \in Outcomes :
          /\ Fault(o)
          /\ Undeploy("hub", o)
          /\ AfterUndeployHub(o)
    /\ UNCHANGED << creater, threads, cluster, op, spec, locals, calls, initCount >>

\* a variant of AfterUndeployPostgres that goes on after a failed removal
AfterUndeployPostgresIgnoreErr(o) ==
    /\ Log(IF o = "err" THEN "Undeploy_postgres_err" ELSE "Undeploy_postgres")
    /\ Goto("Stop_getHubConfigDeployer")

\* lines 263-266: an error of the removal is returned, else the config is next
AfterUndeployPostgres(o) ==
    IF o = "err"
    THEN /\ Return("", EmptyMap, FALSE, "Undeploy_postgres")
         /\ Log("Undeploy_postgres_err")
    ELSE /\ Log("Undeploy_postgres")
         /\ Goto("Stop_getHubConfigDeployer")

\* lines 262-266
Stop_UndeployPostgres ==
    /\ pc = "Stop_UndeployPostgres"
    /\ \E o \in Outcomes :
          /\ Fault(o)
          /\ Undeploy("postgres", o)
          /\ AfterUndeployPostgres(o)
    /\ UNCHANGED << creater, threads, cluster, op, spec, locals, calls, initCount >>

\* getHubConfigDeployer, lines 344-369, called at line 269
Stop_getHubConfigDeployer ==
    /\ pc = "Stop_getHubConfigDeployer"
    /\ IF ~kubeConfigOk
       THEN /\ Return("", EmptyMap, FALSE, "NewDeployer")
            /\ UNCHANGED << trace, faults >>
       ELSE \E o \in Outcomes :
               /\ Fault(o)
               /\ Log(IF o = "ok" THEN "GetDefaultPasswords"
                                  ELSE "GetDefaultPasswords_err")
               /\ Goto("Stop_UndeployConfig")
    /\ UNCHANGED << creater, threads, cluster, applied, op, spec, locals, calls, initCount >>

\* lines 273-279
Stop_UndeployConfig ==
    /\ pc = "Stop_UndeployConfig"
    /\ \E o \in Outcomes :
          /\ Fault(o)
          /\ Undeploy("config", o)
          /\ IF o = "err"
             THEN /\ Return("", EmptyMap, FALSE, "Undeploy_config")
                  /\ Log("Undeploy_config_err")
             ELSE /\ Return("", EmptyMap, FALSE, "nil")
                  /\ Log("Undeploy_config")
    /\ UNCHANGED << creater, threads, cluster, op, spec, locals, calls, initCount >>

\* ------------------------------------------------------------------------
\* DeleteHub
\* ------------------------------------------------------------------------

\* util.GetNamespace: the namespace, or a not-found error once it is gone,
\* or another error of the platform
GetNamespace(o) ==
    IF o = "err" THEN "err"
    ELSE IF namespace = "absent" THEN "notfound" ELSE "found"

\* lines 69-72: the first lookup; any error of it skips the deletion
DeleteHub ==
    /\ pc = "DeleteHub"
    /\ \E o \in Outcomes :
          /\ Fault(o)
          /\ Log("GetNamespace_" \o GetNamespace(o))
          /\ IF GetNamespace(o) # "found"
             THEN Goto("DeleteHub_DeletePersistentVolume")
             ELSE Goto("DeleteHub_DeleteNamespace")
    /\ UNCHANGED << creater, threads, cluster, applied, op, spec, locals, calls,
                    initCount >>

\* lines 74-77: util.DeleteNamespace; its error is logged only
DeleteHub_DeleteNamespace ==
    /\ pc = "DeleteHub_DeleteNamespace"
    /\ \E o \in Outcomes :
          /\ Fault(o)
          /\ IF o = "ok" /\ namespace # "absent"
             THEN /\ namespace' = "terminating"
                  /\ Log("DeleteNamespace")
             ELSE /\ namespace' = namespace
                  /\ Log("DeleteNamespace_err")
          /\ Goto("DeleteHub_loop")
    /\ UNCHANGED << creater, threads, tick, applied, op, spec, locals, calls,
                    initCount >>

\* lines 79-88: one turn of the loop: lookup, sleep, leave on any error
DeleteHub_loop ==
    /\ pc = "DeleteHub_loop"
    /\ tick' = ~tick
    /\ \E o \in Outcomes :
          /\ Fault(o)
          /\ IF GetNamespace(o) # "found"
             THEN /\ Log("loop_" \o GetNamespace(o))
                  /\ Goto("DeleteHub_DeletePersistentVolume")
             ELSE /\ Goto("DeleteHub_loop")
                  /\ UNCHANGED trace
    /\ UNCHANGED << creater, threads, namespace, applied, op, spec, locals, calls,
                    initCount >>

\* a variant of AfterDeletePersistentVolume that gives up on an error
AfterDeletePersistentVolumeAbort(o) ==
    IF o = "err"
    THEN Return("", EmptyMap, FALSE, "DeletePersistentVolume")
    ELSE Goto("DeleteHub_DeleteClusterRoleBinding")

\* lines 93-98: the error is logged, the cluster role binding is next
AfterDeletePersistentVolume(o) == Goto("DeleteHub_DeleteClusterRoleBinding")

\* lines 92-95: util.DeletePersistentVolume
DeleteHub_DeletePersistentVolume ==
    /\ pc = "DeleteHub_DeletePersistentVolume"
    /\ \E o \in Outcomes :
          /\ Fault(o)
          /\ Log(IF o = "ok" THEN "DeletePersistentVolume"
                             ELSE "DeletePersistentVolume_err")
          /\ AfterDeletePersistentVolume(o)
    /\ UNCHANGED << creater, threads, cluster, applied, op, spec, locals, calls,
                    initCount >>

\* lines 98-102: util.DeleteClusterRoleBinding, then return nil
DeleteHub_DeleteClusterRoleBinding ==
    /\ pc = "DeleteHub_DeleteClusterRoleBinding"
    /\ \E o \in Outcomes :
          /\ Fault(o)
          /\ Log(IF o = "ok" THEN "DeleteClusterRoleBinding"
                             ELSE "DeleteClusterRoleBinding_err")
          /\ Return("", EmptyMap, FALSE, "nil")
    /\ UNCHANGED << creater, threads, cluster, applied, op, spec, locals, calls,
                    initCount >>

\* the platform finishes a deletion it has accepted: the namespace and all
\* that was applied in it are gone
NamespaceTerminated ==
    /\ namespace = "terminating"
    /\ namespace' = "absent"
    /\ applied' = {}
    /\ UNCHANGED << creater, threads, tick, op, spec, pc, trace, ret, locals, calls,
                    faults, initCount >>

Next ==
    \/ CallCreateHub
    \/ CallStart
    \/ CallStop
    \/ CreateHub
    \/ CreateHub_Run
    \/ CreateHub_RunExpose
    \/ CreateHub_ValidatePods
    \/ getPVCVolumeName
    \/ CreateHub_Routes
    \/ CreateHub_Sleep
    \/ getLoadBalancerIPAddress
    \/ getNodePortIPAddress
    \/ Start_getHubConfigDeployer
    \/ Start_RunConfig
    \/ Start_RunPostgres
    \/ initPostgres
    \/ initPostgres_WaitForServiceEndpointReady
    \/ initPostgres_InitDatabase
    \/ initPostgres_GetHubDBPassword
    \/ initPostgres_CloneJob
    \/ Start_getHubDeployer
    \/ Start_RunHub
    \/ Stop_getHubDeployer
    \/ Stop_UndeployHub
    \/ Stop_UndeployPostgres
    \/ Stop_getHubConfigDeployer
    \/ Stop_UndeployConfig

Spec == Init /\ [][Next]_vars

\* ------------------------------------------------------------------------
\* CreateHub alone: the caller issues nothing but CreateHub
\* ------------------------------------------------------------------------

NextCreateHub ==
    \/ CallCreateHub
    \/ CreateHub
    \/ CreateHub_Run
    \/ CreateHub_RunExpose
    \/ CreateHub_ValidatePods
    \/ getPVCVolumeName
    \/ CreateHub_Routes
    \/ CreateHub_Sleep
    \/ getLoadBalancerIPAddress
    \/ getNodePortIPAddress
    \/ Start_getHubConfigDeployer
    \/ Start_RunConfig
    \/ Start_RunPostgres
    \/ initPostgres
    \/ initPostgres_WaitForServiceEndpointReady
    \/ initPostgres_InitDatabase
    \/ initPostgres_GetHubDBPassword
    \/ initPostgres_CloneJob
    \/ Start_getHubDeployer
    \/ Start_RunHub

SpecCreateHub == Init /\ [][NextCreateHub]_vars

\* ------------------------------------------------------------------------
\* Start alone: the caller issues nothing but Start
\* ------------------------------------------------------------------------

NextStart ==
    \/ CallStart
    \/ Start_getHubConfigDeployer
    \/ Start_RunConfig
    \/ Start_RunPostgres
    \/ initPostgres
    \/ initPostgres_WaitForServiceEndpointReady
    \/ initPostgres_InitDatabase
    \/ initPostgres_GetHubDBPassword
    \/ initPostgres_CloneJob
    \/ Start_getHubDeployer
    \/ Start_RunHub

SpecStart == Init /\ [][NextStart]_vars

\* ------------------------------------------------------------------------
\* A Start and a Stop of one instance that run side by side
\* ------------------------------------------------------------------------
\* Each call runs on a thread of its own and nothing in Creater keeps the two
\* apart. A step is one call of deployer.Run() or deployer.Undeploy(), or
\* initPostgres; the deployers are built in between and change nothing on the
\* cluster.

\* a variant of StopNext that leaves the database batch out
StopNextSkipsPostgres(s, b) ==
    CASE b = "hub" -> "config"
      [] OTHER -> "done"

\* lines 250-278: what Stop removes after batch b
StopNext(s, b) ==
    CASE b = "hub" -> IF s.ExternalPostgres THEN "config" ELSE "postgres"
      [] b = "postgres" -> "config"
      [] OTHER -> "done"

\* lines 207-239: what Start does after step b
StartNext(s, b) ==
    CASE b = "config" -> IF s.ExternalPostgres THEN "hub" ELSE "postgres"
      [] b = "postgres" -> IF NeedsInit(s) THEN "initPostgres" ELSE "hub"
      [] b = "initPostgres" -> "hub"
      [] OTHER -> "done"

\* thread t goes on to position l, or returns when there is nothing left
ThreadGoto(t, l) ==
    /\ tpc' = [tpc EXCEPT ![t] = l]
    /\ tret' = [tret EXCEPT ![t] = IF l = "done" THEN "nil" ELSE @]

\* thread t returns the error of step b
ThreadFail(t, b) ==
    /\ tpc' = [tpc EXCEPT ![t] = "done"]
    /\ tret' = [tret EXCEPT ![t] = b]

\* one step of Start (lines 201-240)
ConcurrentStart ==
    /\ tpc["Start"] # "done"
    /\ \E o \in Outcomes :
          /\ Fault(o)
          /\ IF tpc["Start"] = "initPostgres"
             THEN applied' = applied
             ELSE Run(tpc["Start"], o)
          /\ IF o = "err"
             THEN ThreadFail("Start", tpc["Start"])
             ELSE ThreadGoto("Start", StartNext(spec, tpc["Start"]))
    /\ UNCHANGED << creater, cluster, op, spec, pc, trace, ret, locals, calls,
                    initCount >>

\* one step of Stop (lines 243-279)
ConcurrentStop ==
    /\ tpc["Stop"] # "done"
    /\ \E o \in Outcomes :
          /\ Fault(o)
          /\ Undeploy(tpc["Stop"], o)
          /\ IF o = "err"
             THEN ThreadFail("Stop", tpc["Stop"])
             ELSE ThreadGoto("Stop", StopNext(spec, tpc["Stop"]))
    /\ UNCHANGED << creater, cluster, op, spec, pc, trace, ret, locals, calls,
                    initCount >>

\* the instance is stopped or running when the two calls are issued; its
\* size is a known flavor and the deployers can be built
InitConcurrent ==
    /\ routeClient \in BOOLEAN
    /\ kubeConfigOk = TRUE
    /\ spec \in {s \in BlackduckSpecs : s.Size = "small" /\ s.PVC = <<>>}
    /\ applied \in { {},
                     IF spec.ExternalPostgres
                     THEN {"config", "hub", "expose"}
                     ELSE {"config", "postgres", "hub", "expose"} }
    /\ op = "none"
    /\ pc = "idle"
    /\ trace = <<>>
    /\ ret = NoRet
    /\ pvcVolumeNames = EmptyMap
    /\ ipAddress = ""
    /\ pvcIdx = 1
    /\ i = 0
    /\ dbInitTry = 0
    /\ calls = 0
    /\ faults = 0
    /\ initCount = 0
    /\ namespace = "present"
    /\ tick = FALSE
    /\ tpc = [t \in Threads |-> IF t = "Start" THEN "config" ELSE "hub"]
    /\ tret = [t \in Threads |-> "none"]

NextConcurrent == ConcurrentStart \/ ConcurrentStop

SpecConcurrent == InitConcurrent /\ [][NextConcurrent]_vars

\* ------------------------------------------------------------------------
\* DeleteHub on an instance at some point of its life
\* ------------------------------------------------------------------------

\* the batches applied when DeleteHub is called: none, those of a CreateHub
\* that came to an end, or what a Stop has left of them
Lifecycle ==
    { {}, {"config", "postgres", "hub", "expose"}, {"config", "hub", "expose"},
      {"expose"} }

InitDelete ==
    /\ routeClient \in BOOLEAN
    /\ kubeConfigOk = TRUE
    /\ namespace \in {"present", "terminating", "absent"}
    /\ applied \in {a \in Lifecycle : namespace = "absent" => a = {}}
    /\ op = "none"
    /\ spec \in {s \in BlackduckSpecs :
                   /\ s.State = pending
                   /\ s.Size = "small"
                   /\ s.DbPrototype = ""
                   /\ s.PVC = <<>>
                   /\ ~s.PersistentStorage
                   /\ s.ExternalPostgres = ("postgres" \notin applied)}
    /\ pc = "idle"
    /\ trace = <<>>
    /\ ret = NoRet
    /\ pvcVolumeNames = EmptyMap
    /\ ipAddress = ""
    /\ pvcIdx = 1
    /\ i = 0
    /\ dbInitTry = 0
    /\ calls = 0
    /\ faults = 0
    /\ initCount = 0
    /\ tick = FALSE
    /\ tpc = [t \in Threads |-> "done"]
    /\ tret = [t \in Threads |-> "none"]

\* the steps of DeleteHub's code
DeleteHubStep ==
    \/ DeleteHub
    \/ DeleteHub_DeleteNamespace
    \/ DeleteHub_loop
    \/ DeleteHub_DeletePersistentVolume
    \/ DeleteHub_DeleteClusterRoleBinding

NextDelete ==
    \/ CallDeleteHub
    \/ DeleteHub
    \/ DeleteHub_DeleteNamespace
    \/ DeleteHub_loop
    \/ DeleteHub_DeletePersistentVolume
    \/ DeleteHub_DeleteClusterRoleBinding
    \/ NamespaceTerminated

\* DeleteHub runs on a thread that is scheduled again and again, so a step of
\* it that stays possible is taken; the platform finishes the deletion of a
\* namespace it has accepted
SpecDelete ==
    /\ InitDelete
    /\ [][NextDelete]_vars
    /\ WF_vars(DeleteHubStep)
    /\ WF_vars(NamespaceTerminated)

\* ------------------------------------------------------------------------
\* The create commands of synopsysctl (cmd_create.go)
\* ------------------------------------------------------------------------
\* A command is an operation of its own: op names it, pc is its position,
\* trace lists the calls it has made, ret.err is the error RunE returns and
\* applied is the set of resources the command has in the cluster.

\* the most secrets GetCertsFromFlagsAndSetHelmValue hands to the loop
MaxSecrets == 2

\* the variables no command touches
untouched ==
    << creater, threads, cluster, op, spec, pvcVolumeNames, ipAddress, pvcIdx,
       dbInitTry, calls, initCount >>

\* return fmt.Errorf(...) / return err of a RunE
CmdReturn(err) == Return("", EmptyMap, FALSE, err)

\* a step of a command that touches nothing in the cluster: it fails with
\* its error or goes on
CmdCheck(name, next) ==
    /\ \E o \in Outcomes :
          /\ Fault(o)
          /\ IF o = "err"
             THEN CmdReturn(name) /\ Log(name \o "_err")
             ELSE Goto(next) /\ Log(name)
    /\ UNCHANGED << untouched, applied, i >>

\* a step of a command that creates resource r: it fails with its error and
\* creates nothing, or creates r and goes on
CmdCreate(name, r, next) ==
    /\ \E o \in Outcomes :
          /\ Fault(o)
          /\ IF o = "err"
             THEN /\ CmdReturn(name)
                  /\ Log(name \o "_err")
                  /\ applied' = applied
             ELSE /\ IF next = "idle" THEN CmdReturn("nil") ELSE Goto(next)
                  /\ Log(name)
                  /\ applied' = applied \cup {r}
    /\ UNCHANGED << untouched, i >>

\* the answers of Secrets(namespace).Create: created, already there, error
SecretOutcomes == {"ok", "exists", "err"}

\* Secrets(namespace).Create(...) with err != nil && !IsAlreadyExists(err)
\* returning the error (lines 153-155, 167-169, 390-392)
CreateSecret(o, next) ==
    /\ Fault(IF o = "err" THEN "err" ELSE "ok")
    /\ IF o = "err"
       THEN /\ CmdReturn("CreateSecret")
            /\ Log("CreateSecret_err")
            /\ applied' = applied
       ELSE /\ Goto(next)
            /\ Log(IF o = "ok" THEN "CreateSecret" ELSE "CreateSecret_exists")
            /\ applied' = applied \cup {"secret"}

\* lines 138-156 and 158-170 of createAlertCmd: when the flags of the secret
\* are set, its file is read (log.Fatalf on failure) and the secret created
AlertSecret(next) ==
    /\ \E changed \in BOOLEAN :
          IF ~changed
          THEN /\ Goto(next)
               /\ UNCHANGED << trace, applied, faults >>
          ELSE \/ /\ Fault("err")
                  /\ Fatal("ReadFileData")
                  /\ Log("ReadFileData_err")
                  /\ applied' = applied
               \/ \E o \in SecretOutcomes : CreateSecret(o, next)
    /\ UNCHANGED << untouched, i >>

CallCreateAlertCmd == Call("createAlertCmd", spec.State, "createAlertCmd")

\* lines 99-128: the Helm values from the flags, the chart location, the
\* check of the version
createAlertCmd ==
    /\ pc = "createAlertCmd"
    /\ CmdCheck("Prepare", "createAlertCmd_DryRun")

\* lines 130-135: util.CreateWithHelm3(..., true)
createAlertCmd_DryRun ==
    /\ pc = "createAlertCmd_DryRun"
    /\ CmdCheck("DryRun", "createAlertCmd_Certificate")

\* lines 137-156
createAlertCmd_Certificate ==
    /\ pc = "createAlertCmd_Certificate"
    /\ AlertSecret("createAlertCmd_JavaKeystore")

\* lines 158-170
createAlertCmd_JavaKeystore ==
    /\ pc = "createAlertCmd_JavaKeystore"
    /\ AlertSecret("createAlertCmd_CRUDServiceOrRoute")

\* lines 172-176: alert.CRUDServiceOrRoute
createAlertCmd_CRUDServiceOrRoute ==
    /\ pc = "createAlertCmd_CRUDServiceOrRoute"
    /\ CmdCreate("CRUDServiceOrRoute", "exposed", "createAlertCmd_Install")

\* lines 178-186: util.CreateWithHelm3(..., false), return nil
createAlertCmd_Install ==
    /\ pc = "createAlertCmd_Install"
    /\ CmdCreate("Install", "release", "idle")

CallCreateBlackDuckCmd ==
    Call("createBlackDuckCmd", spec.State, "createBlackDuckCmd")

\* lines 341-381: the chart location, the Helm values from the flags, the
\* file of the size
createBlackDuckCmd ==
    /\ pc = "createBlackDuckCmd"
    /\ CmdCheck("Prepare", "createBlackDuckCmd_GetCerts")

\* lines 383-387: blackduck.GetCertsFromFlagsAndSetHelmValue
createBlackDuckCmd_GetCerts ==
    /\ pc = "createBlackDuckCmd_GetCerts"
    /\ CmdCheck("GetCerts", "createBlackDuckCmd_Secrets")

\* lines 388-393: one turn of the loop over the secrets, i of them done
createBlackDuckCmd_Secrets ==
    /\ pc = "createBlackDuckCmd_Secrets"
    /\ \E more \in BOOLEAN :
          IF more
          THEN /\ i < MaxSecrets
               /\ i' = i + 1
               /\ \E o \in SecretOutcomes :
                     CreateSecret(o, "createBlackDuckCmd_Secrets")
          ELSE /\ Goto("createBlackDuckCmd_DryRun")
               /\ UNCHANGED << trace, applied, faults, i >>
    /\ UNCHANGED untouched

\* lines 395-399: util.CreateWithHelm3(..., true)
createBlackDuckCmd_DryRun ==
    /\ pc = "createBlackDuckCmd_DryRun"
    /\ CmdCheck("DryRun", "createBlackDuckCmd_Install")

\* lines 401-405: util.CreateWithHelm3(..., false)
createBlackDuckCmd_Install ==
    /\ pc = "createBlackDuckCmd_Install"
    /\ CmdCreate("Install", "release", "createBlackDuckCmd_CRUDServiceOrRoute")

\* lines 407-413: blackduck.CRUDServiceOrRoute, return nil
createBlackDuckCmd_CRUDServiceOrRoute ==
    /\ pc = "createBlackDuckCmd_CRUDServiceOrRoute"
    /\ CmdCreate("CRUDServiceOrRoute", "exposed", "idle")

\* the commands start on a namespace that holds nothing of the instance
InitCommands ==
    /\ routeClient \in BOOLEAN
    /\ kubeConfigOk = TRUE
    /\ namespace = "present"
    /\ applied = {}
    /\ op = "none"
    /\ spec \in {s \in BlackduckSpecs :
                   /\ s.State = pending
                   /\ s.Size = "small"
                   /\ s.DbPrototype = ""
                   /\ s.PVC = <<>>
                   /\ ~s.PersistentStorage
                   /\ ~s.ExternalPostgres}
    /\ pc = "idle"
    /\ trace = <<>>
    /\ ret = NoRet
    /\ pvcVolumeNames = EmptyMap
    /\ ipAddress = ""
    /\ pvcIdx = 1
    /\ i = 0
    /\ dbInitTry = 0
    /\ calls = 0
    /\ faults = 0
    /\ initCount = 0
    /\ tick = FALSE
    /\ tpc = [t \in Threads |-> "done"]
    /\ tret = [t \in Threads |-> "none"]

NextCommands ==
    \/ CallCreateAlertCmd
    \/ createAlertCmd
    \/ createAlertCmd_DryRun
    \/ createAlertCmd_Certificate
    \/ createAlertCmd_JavaKeystore
    \/ createAlertCmd_CRUDServiceOrRoute
    \/ createAlertCmd_Install
    \/ CallCreateBlackDuckCmd
    \/ createBlackDuckCmd
    \/ createBlackDuckCmd_GetCerts
    \/ createBlackDuckCmd_Secrets
    \/ createBlackDuckCmd_DryRun
    \/ createBlackDuckCmd_Install
    \/ createBlackDuckCmd_CRUDServiceOrRoute

SpecCommands == InitCommands /\ [][NextCommands]_vars

\* ------------------------------------------------------------------------
\* migrateAlert (alert_migrate.go)
\* ------------------------------------------------------------------------
\* The cluster holds, in applied, "operator" while the deployment of the
\* operator has replicas, "instance" for the resources of the old Alert
\* instance, "cr" for its custom resource, and what the new release adds.

\* a step that takes resource r away: it fails with its error and removes
\* nothing, or removes r and goes on
CmdRemove(name, r, next) ==
    /\ \E o \in Outcomes :
          /\ Fault(o)
          /\ IF o = "err"
             THEN /\ CmdReturn(name)
                  /\ Log(name \o "_err")
                  /\ applied' = applied
             ELSE /\ Goto(next)
                  /\ Log(name)
                  /\ applied' = applied \ {r}
    /\ UNCHANGED << untouched, i >>

\* lines 143-151 and 157-165: Secrets(namespace).Create, and Update when the
\* secret is already there
CreateOrUpdateSecret(o, next) ==
    /\ Fault(IF o \in {"err", "exists_err"} THEN "err" ELSE "ok")
    /\ IF o \in {"err", "exists_err"}
       THEN /\ CmdReturn(IF o = "err" THEN "CreateSecret" ELSE "UpdateSecret")
            /\ Log(IF o = "err" THEN "CreateSecret_err" ELSE "UpdateSecret_err")
            /\ applied' = applied \cup (IF o = "err" THEN {} ELSE {"secret"})
       ELSE /\ Goto(next)
            /\ Log(IF o = "ok" THEN "CreateSecret" ELSE "UpdateSecret")
            /\ applied' = applied \cup {"secret"}

\* lines 140-152 and 153-165: the secret is written when the spec of the
\* Alert holds its data
MigrateSecret(next) ==
    /\ \E present \in BOOLEAN :
          IF ~present
          THEN /\ Goto(next)
               /\ UNCHANGED << trace, applied, faults >>
          ELSE \E o \in {"ok", "exists", "exists_err", "err"} :
                  CreateOrUpdateSecret(o, next)
    /\ UNCHANGED << untouched, i >>

CallMigrateAlert == Call("migrateAlert", spec.State, "migrateAlert")

\* lines 40-44: util.GetDeployment of the operator
migrateAlert ==
    /\ pc = "migrateAlert"
    /\ CmdCheck("GetDeployment", "migrateAlert_PatchDeploymentForReplicas")

\* lines 46-49: the operator is scaled to 0 replicas
migrateAlert_PatchDeploymentForReplicas ==
    /\ pc = "migrateAlert_PatchDeploymentForReplicas"
    /\ CmdRemove("PatchDeploymentForReplicas", "operator",
                 "migrateAlert_HelmValues")

\* lines 51-64: AlertV1ToHelmValues, GenerateHelmFlagsFromCobraFlags
migrateAlert_HelmValues ==
    /\ pc = "migrateAlert_HelmValues"
    /\ CmdCheck("HelmValues", "migrateAlert_PVC")

\* the numbers of claims the list of line 68 may hold
PVCCounts == 0..2

\* lines 66-78: with persistent storage there must be exactly one claim
migrateAlert_PVC ==
    /\ pc = "migrateAlert_PVC"
    /\ \E storage \in BOOLEAN :
          IF ~storage
          THEN /\ Goto("migrateAlert_deleteComponents")
               /\ UNCHANGED << trace, faults >>
          ELSE \/ /\ Fault("err")
                  /\ CmdReturn("ListPVC")
                  /\ Log("ListPVC_err")
               \/ \E n \in PVCCounts :
                     /\ Fault("ok")
                     /\ IF n # 1
                        THEN CmdReturn("PVCCount") /\ Log("ListPVC_count")
                        ELSE /\ Goto("migrateAlert_deleteComponents")
                             /\ Log("ListPVC")
    /\ UNCHANGED << untouched, applied, i >>

\* lines 80-86: the resources of the current instance are deleted
migrateAlert_deleteComponents ==
    /\ pc = "migrateAlert_deleteComponents"
    /\ CmdRemove("deleteComponents", "instance", "migrateAlert_ChartLocation")

\* lines 88-127: SetHelmChartLocation and the check of the version
migrateAlert_ChartLocation ==
    /\ pc = "migrateAlert_ChartLocation"
    /\ CmdCheck("ChartLocation", "migrateAlert_DryRun")

\* lines 129-135: util.CreateWithHelm3(..., true)
migrateAlert_DryRun ==
    /\ pc = "migrateAlert_DryRun"
    /\ CmdCheck("DryRun", "migrateAlert_Certificate")

\* lines 139-152
migrateAlert_Certificate ==
    /\ pc = "migrateAlert_Certificate"
    /\ MigrateSecret("migrateAlert_JavaKeystore")

\* lines 153-165
migrateAlert_JavaKeystore ==
    /\ pc = "migrateAlert_JavaKeystore"
    /\ MigrateSecret("migrateAlert_RenameExposed")

\* lines 167-192: the exposed service, or on OpenShift the route, of the old
\* instance gets the name of the new release when it is found
migrateAlert_RenameExposed ==
    /\ pc = "migrateAlert_RenameExposed"
    /\ \E found \in {"service", "route", "none"} :
          /\ found = "route" => routeClient
          /\ IF found = "none"
             THEN /\ Goto("migrateAlert_CRUDServiceOrRoute")
                  /\ UNCHANGED << trace, faults >>
             ELSE \E o \in Outcomes :
                     /\ Fault(o)
                     /\ IF o = "err"
                        THEN /\ CmdReturn("UpdateExposed")
                             /\ Log("UpdateExposed_err")
                        ELSE /\ Goto("migrateAlert_CRUDServiceOrRoute")
                             /\ Log("UpdateExposed")
    /\ UNCHANGED << untouched, applied, i >>

\* lines 194-198: alertctl.CRUDServiceOrRoute
migrateAlert_CRUDServiceOrRoute ==
    /\ pc = "migrateAlert_CRUDServiceOrRoute"
    /\ CmdCreate("CRUDServiceOrRoute", "exposed", "migrateAlert_Install")

\* lines 200-204: util.CreateWithHelm3(..., false)
migrateAlert_Install ==
    /\ pc = "migrateAlert_Install"
    /\ CmdCreate("Install", "release", "migrateAlert_DeleteAlert")

\* lines 206-209: util.DeleteAlert removes the custom resource
migrateAlert_DeleteAlert ==
    /\ pc = "migrateAlert_DeleteAlert"
    /\ CmdRemove("DeleteAlert", "cr", "migrateAlert_destroyOperator")

\* lines 211-216: the labels of the namespace (an error is only logged),
\* then return destroyOperator(...)
migrateAlert_destroyOperator ==
    /\ pc = "migrateAlert_destroyOperator"
    /\ \E o \in Outcomes :
          /\ Fault(o)
          /\ IF o = "err"
             THEN CmdReturn("destroyOperator") /\ Log("destroyOperator_err")
             ELSE CmdReturn("nil") /\ Log("destroyOperator")
    /\ UNCHANGED << untouched, applied, i >>

\* the Alert instance of the operator is in place and the operator runs
InitMigrate ==
    /\ routeClient \in BOOLEAN
    /\ kubeConfigOk = TRUE
    /\ namespace = "present"
    /\ applied = {"operator", "instance", "cr"}
    /\ op = "none"
    /\ spec \in {s \in BlackduckSpecs :
                   /\ s.State = pending
                   /\ s.Size = "small"
                   /\ s.DbPrototype = ""
                   /\ s.PVC = <<>>
                   /\ ~s.PersistentStorage
                   /\ ~s.ExternalPostgres}
    /\ pc = "idle"
    /\ trace = <<>>
    /\ ret = NoRet
    /\ pvcVolumeNames = EmptyMap
    /\ ipAddress = ""
    /\ pvcIdx = 1
    /\ i = 0
    /\ dbInitTry = 0
    /\ calls = 0
    /\ faults = 0
    /\ initCount = 0
    /\ tick = FALSE
    /\ tpc = [t \in Threads |-> "done"]
    /\ tret = [t \in Threads |-> "none"]

NextMigrate ==
    \/ CallMigrateAlert
    \/ migrateAlert
    \/ migrateAlert_PatchDeploymentForReplicas
    \/ migrateAlert_HelmValues
    \/ migrateAlert_PVC
    \/ migrateAlert_deleteComponents
    \/ migrateAlert_ChartLocation
    \/ migrateAlert_DryRun
    \/ migrateAlert_Certificate
    \/ migrateAlert_JavaKeystore
    \/ migrateAlert_RenameExposed
    \/ migrateAlert_CRUDServiceOrRoute
    \/ migrateAlert_Install
    \/ migrateAlert_DeleteAlert
    \/ migrateAlert_destroyOperator

SpecMigrate == InitMigrate /\ [][NextMigrate]_vars

\* ------------------------------------------------------------------------
\* Properties
\* ------------------------------------------------------------------------

Has(e) == \E k \in 1..Len(trace) : trace[k] = e

Last == IF trace = <<>> THEN "" ELSE trace[Len(trace)]

Returned(o) == pc = "idle" /\ op = o

Failed == ret.err \notin {"nil", "none"}

\* every batch this operation has applied is still applied
InPlace ==
    /\ Has("Run_init") => InitBatch \in applied
    /\ Has("Run_config") => "config" \in applied
    /\ Has("Run_postgres") => "postgres" \in applied
    /\ Has("Run_hub") => "hub" \in applied
    /\ Has("Run_expose") => "expose" \in applied

\* the ways the resolution of the endpoint ends without an address
EndpointFailures ==
    { "CreateOpenShiftRoutes_err", "getNodePortIPAddress_err",
      "getNodePortIPAddress_timeout" }

\* C1: a CreateHub for a size tag that is no known flavor makes no call to
\* the cluster at all, leaves the applied batches as they were, and returns
\* an error.
C1_UnknownSizeNoMutation ==
    /\ [](op = "CreateHub" /\ spec.Size \notin KnownSizes
            => /\ trace = <<>>
               /\ pc \in {"CreateHub", "idle"}
               /\ pc = "idle" => Failed /\ ret.ip = "" /\ ret.pvc = EmptyMap)
    /\ [][op' = "CreateHub" /\ spec'.Size \notin KnownSizes
            => applied' = applied]_vars

C1_Witness ==
    /\ Returned("CreateHub")
    /\ spec.Size \notin KnownSizes
    /\ ret.err = "flavor"
    /\ applied # {}

\* C2: when deployer.Run() of CreateHub's first batch fails, CreateHub
\* returns ("", nil, true, err) at once and makes no later call.
C2_ConfigApplyFailureIsFatal ==
    op = "CreateHub" /\ Has("Run_init_err")
        => /\ pc = "idle"
           /\ Last = "Run_init_err"
           /\ Failed /\ ret.fatal
           /\ ret.ip = "" /\ ret.pvc = EmptyMap

\* C3: a CreateHub whose last step, the resolution of the endpoint, fails
\* returns the error with fatal = false and no address, and every batch it
\* applied is still applied.
C3_EndpointFailureNonFatal ==
    Returned("CreateHub") /\ Last \in EndpointFailures
        => /\ Failed
           /\ ~ret.fatal
           /\ ret.ip = ""
           /\ InPlace
           /\ {"config", "hub", "expose"} \subseteq applied

C3_Witness ==
    /\ Returned("CreateHub")
    /\ Last = "getNodePortIPAddress_timeout"
    /\ spec.PersistentStorage
    /\ DOMAIN ret.pvc = {"pvc1", "pvc2"}

\* the ways the resolution of a claim's volume name ends without a name
PVCFailures == {"getPVCVolumeName_err", "getPVCVolumeName_timeout"}

ClaimNames == {spec.PVC[k] : k \in 1..Len(spec.PVC)}

\* C4 as claimed: an error with fatal = false means that the resolution of
\* the endpoint is what failed, after the config, database, application and
\* exposure batches were applied, the pods were seen running and every
\* declared claim got its volume name.
C4_NonFatalMeansEndpointFailed ==
    Returned("CreateHub") /\ Failed /\ ~ret.fatal
        => /\ Last \in EndpointFailures
           /\ Has("Run_config") /\ Has("Run_postgres")
           /\ Has("Run_hub") /\ Has("Run_expose")
           /\ Has("ValidatePods")
           /\ spec.PersistentStorage => DOMAIN pvcVolumeNames = ClaimNames

\* C4, amended: an error with fatal = false means that the resolution of a
\* claim's volume name or of the endpoint is what failed, after the config,
\* application and exposure batches (and the database batch, when no
\* external database is given) were applied and the pods were seen running;
\* when it is the endpoint, every declared claim got a non-empty volume name.
C4_NonFatalMeansLookupFailed ==
    Returned("CreateHub") /\ Failed /\ ~ret.fatal
        => /\ Last \in EndpointFailures \cup PVCFailures
           /\ Has("Run_config") /\ Has("Run_hub") /\ Has("Run_expose")
           /\ ~spec.ExternalPostgres => Has("Run_postgres")
           /\ Has("ValidatePods")
           /\ InPlace
           /\ Last \in EndpointFailures /\ spec.PersistentStorage
                => /\ DOMAIN pvcVolumeNames = ClaimNames
                   /\ \A n \in ClaimNames : pvcVolumeNames[n] # ""

C4_Witness ==
    /\ Returned("CreateHub")
    /\ Last = "getPVCVolumeName_timeout"
    /\ Failed /\ ~ret.fatal

\* C5: when the wait for the pods fails, CreateHub returns the error with
\* fatal = true at once: no claim and no endpoint is looked up, and every
\* batch applied so far stays applied.
C5_PodsFailureFatal ==
    op = "CreateHub" /\ Has("ValidatePods_err")
        => /\ pc = "idle"
           /\ Last = "ValidatePods_err"
           /\ ret.err = "ValidatePods" /\ ret.fatal
           /\ ret.ip = "" /\ ret.pvc = EmptyMap
           /\ pvcVolumeNames = EmptyMap /\ ipAddress = ""
           /\ InPlace
           /\ {"config", "hub", "expose"} \subseteq applied

C5_Witness ==
    /\ Returned("CreateHub")
    /\ Last = "ValidatePods_err"
    /\ spec.PersistentStorage /\ spec.PVC # <<>>
    /\ routeClient

\* the steps of Start that can fail, and the error Start returns for each
StartFailures ==
    { "Run_config_err", "Run_postgres_err", "WaitForServiceEndpointReady_err",
      "InitDatabase_err", "GetHubDBPassword_err", "CloneJob_err",
      "Run_hub_err" }

ErrOf(e) ==
    CASE e = "Run_config_err" -> "Run_config"
      [] e = "Run_postgres_err" -> "Run_postgres"
      [] e = "WaitForServiceEndpointReady_err" -> "WaitForServiceEndpointReady"
      [] e = "InitDatabase_err" -> "InitDatabase"
      [] e = "GetHubDBPassword_err" -> "GetHubDBPassword"
      [] e = "CloneJob_err" -> "CloneJob"
      [] e = "Run_hub_err" -> "Run_hub"

\* the positions inside Start and initPostgres
StartPcs ==
    { "Start_getHubConfigDeployer", "Start_RunConfig", "Start_RunPostgres",
      "initPostgres", "initPostgres_WaitForServiceEndpointReady",
      "initPostgres_InitDatabase", "initPostgres_GetHubDBPassword",
      "initPostgres_CloneJob", "Start_getHubDeployer", "Start_RunHub" }

\* the operation is in a Start, or a Start has just returned: to the caller,
\* or into CreateHub, which is then about to apply the exposure batch or has
\* returned itself
InStart ==
    \/ op = "Start"
    \/ op = "CreateHub" /\ pc \in StartPcs \cup {"CreateHub_RunExpose", "idle"}

Earlier == 1..(Len(trace) - 1)

\* C6: the failure of a step of Start is the last thing Start does: its error
\* is what is returned, nothing is called after it, and the batches applied
\* before it stay applied.
C6_StartStopsAtFirstFailure ==
    InStart =>
        /\ \A k \in Earlier : trace[k] \notin StartFailures
        /\ Last \in StartFailures
              => pc = "idle" /\ ret.err = ErrOf(Last) /\ InPlace

C6_Witness ==
    /\ Returned("Start")
    /\ Last = "InitDatabase_err"
    /\ {"config", "postgres"} \subseteq applied
    /\ "hub" \notin applied

\* the step a call belongs to: 0 CreateHub's first batch, 1 the config batch,
\* 2 the database batch, 3 the bootstrap of the database, 4 the application
\* batch (1 to 4 are the steps of Start), 5 what CreateHub does after Start
StepOf(e) ==
    CASE e \in {"init", "init_err", "Run_init", "Run_init_err"} -> 0
      [] e \in {"GetDefaultPasswords", "GetDefaultPasswords_err",
                "Run_config", "Run_config_err"} -> 1
      [] e \in {"Run_postgres", "Run_postgres_err"} -> 2
      [] e \in {"initPostgres_GetDefaultPasswords",
                "initPostgres_GetDefaultPasswords_err",
                "WaitForServiceEndpointReady",
                "WaitForServiceEndpointReady_err",
                "InitDatabase", "InitDatabase_err",
                "GetHubDBPassword", "GetHubDBPassword_err",
                "CloneJob", "CloneJob_err"} -> 3
      [] e \in {"addAnyUIDToServiceAccount", "addAnyUIDToServiceAccount_err",
                "Run_hub", "Run_hub_err"} -> 4
      [] OTHER -> 5

HasStep(n) == \E k \in 1..Len(trace) : StepOf(trace[k]) = n

\* the state tags that spell "pending", whatever the case of the letters
PendingTags ==
    { <<"p", "e", "n", "d", "i", "n", "g">>,
      <<"P", "e", "n", "d", "i", "n", "G">>,
      <<"P", "E", "N", "D", "I", "N", "G">> }

\* the bootstrap is required by the spec of the instance
BootstrapRequired ==
    /\ ~spec.ExternalPostgres
    /\ ~spec.PersistentStorage \/ spec.State \in PendingTags

BootstrapDone == Has("InitDatabase") \/ Has("CloneJob")

HubAttempted == Has("Run_hub") \/ Has("Run_hub_err")

\* C7: the calls of a Start are made in the order config batch, database
\* batch, bootstrap, application batch; the database batch is applied only
\* when no external database is given, and the application batch only after
\* the config batch, the database batch and the bootstrap, as far as they are
\* required, have succeeded.
C7_StartOrder ==
    InStart =>
        /\ \A k \in Earlier : StepOf(trace[k]) <= StepOf(trace[k + 1])
        /\ HasStep(2) => Has("Run_config") /\ ~spec.ExternalPostgres
        /\ HasStep(3) => Has("Run_postgres")
        /\ HubAttempted
              => /\ Has("Run_config")
                 /\ ~spec.ExternalPostgres => Has("Run_postgres")
                 /\ BootstrapRequired => BootstrapDone
                 /\ \A k \in Earlier : trace[k] \notin StartFailures

C7_Witness ==
    /\ Returned("Start")
    /\ trace = << "GetDefaultPasswords", "Run_config", "Run_postgres",
                  "initPostgres_GetDefaultPasswords",
                  "WaitForServiceEndpointReady", "InitDatabase",
                  "addAnyUIDToServiceAccount", "Run_hub" >>

\* initPostgres has been entered by the operation in progress
BootstrapEntered ==
    \/ pc \in { "initPostgres", "initPostgres_WaitForServiceEndpointReady",
                "initPostgres_InitDatabase", "initPostgres_GetHubDBPassword",
                "initPostgres_CloneJob" }
    \/ HasStep(3)

\* C8: in a Start whose config batch is applied, the database batch is what
\* comes next iff no external database is given (unless its deployer cannot
\* be built); once the database batch is applied, initPostgres is entered
\* iff persistent storage is off or the state tag spells "pending" in any
\* case; with an external database it is never entered.
C8_DatabaseAndBootstrapCondition ==
    InStart /\ Has("Run_config") =>
        /\ spec.ExternalPostgres
              => ~HasStep(2) /\ pc # "Start_RunPostgres" /\ ~BootstrapEntered
        /\ ~spec.ExternalPostgres
              => \/ HasStep(2)
                 \/ pc = "Start_RunPostgres"
                 \/ pc = "idle" /\ ret.err = "flavor"
        /\ Has("Run_postgres")
              => (BootstrapEntered
                    <=> (~spec.PersistentStorage \/ spec.State \in PendingTags))

C8_Witness ==
    /\ Returned("Start")
    /\ calls = 2
    /\ initCount = 1
    /\ spec.PersistentStorage
    /\ spec.State \notin PendingTags
    /\ Has("Run_postgres") /\ Has("Run_hub")
    /\ ~BootstrapEntered

\* C9 as claimed: without persistent storage, a Start that gets through has
\* initialized the database, whatever else the spec says.
C9_NoStorageAlwaysInitializes ==
    Returned("Start") /\ ~spec.PersistentStorage /\ ret.err = "nil"
        => BootstrapDone

\* C9, amended: without persistent storage and without an external database,
\* every Start whose config and database batches are applied enters
\* initPostgres and reaches the application batch only after InitDatabase or
\* CloneJob, whatever the state tag and the operations before; with an
\* external database no Start applies a database batch or enters
\* initPostgres.
C9_NoStorageInitializesOwnDatabase ==
    InStart /\ ~spec.PersistentStorage =>
        /\ ~spec.ExternalPostgres /\ Has("Run_postgres") => BootstrapEntered
        /\ ~spec.ExternalPostgres /\ (HasStep(4) \/ pc = "Start_getHubDeployer")
              => BootstrapDone
        /\ spec.ExternalPostgres => ~HasStep(2) /\ ~BootstrapEntered

C9_Witness ==
    /\ Returned("Start")
    /\ calls = 2
    /\ ~spec.PersistentStorage
    /\ ~spec.ExternalPostgres
    /\ spec.State \notin PendingTags
    /\ Has("InitDatabase") /\ Has("Run_hub")

\* C10: with persistent storage, InitDatabase / CloneJob runs at most once
\* over the operations issued on the instance.
C10_InitAtMostOnce == initCount <= 1

\* ------------------------------------------------------------------------
\* Stop
\* ------------------------------------------------------------------------

\* the place of an event in the order of Stop
StopStepOf(e) ==
    CASE e \in {"addAnyUIDToServiceAccount", "addAnyUIDToServiceAccount_err"}
           -> 0
      [] e \in {"Undeploy_hub", "Undeploy_hub_err"} -> 1
      [] e \in {"Undeploy_postgres", "Undeploy_postgres_err"} -> 2
      [] e \in {"GetDefaultPasswords", "GetDefaultPasswords_err"} -> 3
      [] e \in {"Undeploy_config", "Undeploy_config_err"} -> 4
      [] OTHER -> 5

HasStopStep(n) == \E k \in 1..Len(trace) : StopStepOf(trace[k]) = n

\* C11: Stop removes the application batch, then the database batch, then the
\* config batch, each at most once; the database batch is removed exactly
\* when no external database is given; a removal is attempted only after the
\* removal before it has succeeded.
C11_StopOrder ==
    op = "Stop" =>
      /\ \A k \in Earlier : StopStepOf(trace[k]) < StopStepOf(trace[k + 1])
      /\ (pc = "Stop_UndeployPostgres" \/ HasStopStep(2)) =>
            ~spec.ExternalPostgres /\ Has("Undeploy_hub")
      /\ (pc = "Stop_UndeployConfig" \/ HasStopStep(4)) =>
            /\ Has("Undeploy_hub")
            /\ Has("Undeploy_postgres") <=> ~spec.ExternalPostgres

\* a Stop of a created instance with its own database has removed the three
\* batches
C11_Witness ==
    /\ Returned("Stop")
    /\ ret.err = "nil"
    /\ ~spec.ExternalPostgres
    /\ Has("Undeploy_postgres")
    /\ applied = {"expose"}

StopFailures ==
    {"Undeploy_hub_err", "Undeploy_postgres_err", "Undeploy_config_err"}

StopRemovals == {"Undeploy_hub", "Undeploy_postgres", "Undeploy_config"}

StopBatchOf(e) ==
    CASE e \in {"Undeploy_hub", "Undeploy_hub_err"} -> "hub"
      [] e \in {"Undeploy_postgres", "Undeploy_postgres_err"} -> "postgres"
      [] OTHER -> "config"

StopErrOf(e) ==
    CASE e = "Undeploy_hub_err" -> "Undeploy_hub"
      [] e = "Undeploy_postgres_err" -> "Undeploy_postgres"
      [] OTHER -> "Undeploy_config"

\* a failed removal is the last thing Stop does, and its error is returned
C12_FailureIsLast ==
    op = "Stop" =>
      /\ \A k \in Earlier : trace[k] \notin StopFailures
      /\ Last \in StopFailures =>
            /\ pc = "idle"
            /\ ret.err = StopErrOf(Last)

\* a step of Stop changes the applied batches only by taking away the batch
\* whose removal has just succeeded
C12_StepOfStop ==
    (op = "Stop" /\ op' = "Stop") =>
      IF trace' # trace /\ Last' \in StopRemovals
      THEN applied' = applied \ {StopBatchOf(Last')}
      ELSE applied' = applied

\* C12: a removal of Stop that fails ends Stop at once with that error; the
\* batches not yet attempted stay applied, the batches removed stay removed,
\* and nothing is tried again.
C12_StopAbortsOnFailure ==
    [](C12_FailureIsLast) /\ [][C12_StepOfStop]_vars

\* Stop of a created instance fails on the database batch: the application
\* batch is gone, the database and config batches are still there
C12_Witness ==
    /\ Returned("Stop")
    /\ Last = "Undeploy_postgres_err"
    /\ ret.err = "Undeploy_postgres"
    /\ "hub" \notin applied
    /\ {"postgres", "config", "expose"} \subseteq applied

\* C13, as stated: after a Stop of a created instance that returns no error,
\* the application and database batches are removed and the config batch is
\* still applied.
C13_ConfigRetained ==
    (Returned("Stop") /\ ret.err = "nil" /\ "expose" \in applied) =>
      /\ "hub" \notin applied
      /\ "postgres" \notin applied
      /\ "config" \in applied

\* C13, amended: after a Stop that returns no error, the application batch,
\* the database batch and the config batch are all removed.
C13_ConfigRemoved ==
    (Returned("Stop") /\ ret.err = "nil") =>
      /\ "hub" \notin applied
      /\ "postgres" \notin applied
      /\ "config" \notin applied

\* a Stop without error of a created instance with an external database
C13_Witness ==
    /\ Returned("Stop")
    /\ ret.err = "nil"
    /\ spec.ExternalPostgres
    /\ "expose" \in applied
    /\ "config" \notin applied

\* ------------------------------------------------------------------------
\* DeleteHub
\* ------------------------------------------------------------------------

PVDeletions == {"DeletePersistentVolume", "DeletePersistentVolume_err"}

CRBDeletions == {"DeleteClusterRoleBinding", "DeleteClusterRoleBinding_err"}

CountOf(S) == Cardinality({k \in 1..Len(trace) : trace[k] \in S})

\* C14: whenever DeleteHub returns, it returns nil and has attempted the
\* deletion of the persistent volume and of the cluster role binding exactly
\* once each, whatever the lookups and deletions answered.
C14_DeleteAlwaysCleansUp ==
    op = "DeleteHub" =>
      /\ CountOf(PVDeletions) <= 1
      /\ CountOf(CRBDeletions) <= 1
      /\ pc = "idle" =>
            /\ ret.err = "nil"
            /\ CountOf(PVDeletions) = 1
            /\ CountOf(CRBDeletions) = 1

\* the namespace is absent at the first lookup and the deletion of the
\* persistent volume fails: both cleanups are attempted, nil is returned
C14_Witness ==
    /\ Returned("DeleteHub")
    /\ trace = << "GetNamespace_notfound", "DeletePersistentVolume_err",
                  "DeleteClusterRoleBinding" >>

\* C15: when the namespace exists at the first lookup, the deletions of the
\* persistent volume and of the cluster role binding are attempted only
\* after a lookup has reported the namespace absent, and the persistent
\* volume comes before the cluster role binding.
C15_CleanupAfterAbsent ==
    (op = "DeleteHub" /\ trace # <<>> /\ trace[1] = "GetNamespace_found") =>
      \A k \in 1..Len(trace) :
         /\ trace[k] \in PVDeletions \cup CRBDeletions =>
               \E j \in 1..(k - 1) : trace[j] = "loop_notfound"
         /\ trace[k] \in CRBDeletions =>
               \E j \in 1..(k - 1) : trace[j] \in PVDeletions

\* C16: after a failed call of DeleteNamespace, with the namespace still
\* there, DeleteHub eventually returns.
C16_DeleteReturnsAfterFailedDeletion ==
    (op = "DeleteHub" /\ Last = "DeleteNamespace_err" /\ namespace = "present")
       ~> (pc = "idle")

\* C17: once DeleteHub has returned, the namespace is absent.
C17_ReturnedMeansAbsent == Returned("DeleteHub") => namespace = "absent"

\* ------------------------------------------------------------------------
\* Endpoint resolution
\* ------------------------------------------------------------------------

RouteEvents ==
    { "CreateOpenShiftRoutes", "CreateOpenShiftRoutes_nohost",
      "CreateOpenShiftRoutes_err" }

LoadBalancerEvents ==
    { "getLoadBalancerIPAddress", "getLoadBalancerIPAddress_err",
      "getLoadBalancerIPAddress_timeout" }

NodePortEvents ==
    { "getNodePortIPAddress", "getNodePortIPAddress_err",
      "getNodePortIPAddress_timeout" }

HasAny(S) == \E k \in 1..Len(trace) : trace[k] \in S

LookupPcs == {"getLoadBalancerIPAddress", "getNodePortIPAddress"}

EndpointStepOf(e) ==
    CASE e \in RouteEvents -> 1
      [] e = "Sleep" -> 2
      [] e \in LoadBalancerEvents -> 3
      [] e \in NodePortEvents -> 4
      [] OTHER -> 0

Yields == {"CreateOpenShiftRoutes", "getLoadBalancerIPAddress",
           "getNodePortIPAddress"}

\* C19: the mechanisms are tried in the order route, load balancer, node
\* port, each at most once; the node port is looked up only after the poll
\* of the load balancer has ended without an address; once a mechanism has
\* yielded an address no later one is asked, and the address returned is
\* that of exactly one mechanism.
C19_EndpointPrecedence ==
    op = "CreateHub" =>
      /\ \A k \in Earlier :
            EndpointStepOf(trace[k]) >= 1 =>
               EndpointStepOf(trace[k]) < EndpointStepOf(trace[k + 1])
      /\ (pc = "getLoadBalancerIPAddress" \/ HasAny(LoadBalancerEvents)) =>
            ~Has("CreateOpenShiftRoutes") /\ Has("Sleep")
      /\ (pc = "getNodePortIPAddress" \/ HasAny(NodePortEvents)) =>
            /\ ~Has("getLoadBalancerIPAddress")
            /\ \/ Has("getLoadBalancerIPAddress_err")
               \/ Has("getLoadBalancerIPAddress_timeout")
      /\ HasAny({"getLoadBalancerIPAddress", "getNodePortIPAddress"}) =>
            /\ pc = "idle"
            /\ Last \in Yields
      /\ (pc = "idle" /\ ret.err = "nil") =>
            /\ CountOf(Yields) = 1
            /\ ret.ip = ipAddress
            /\ ret.ip \in (IF Has("CreateOpenShiftRoutes")
                           THEN Hosts ELSE Addresses)

\* the route has no host, the poll of the load balancer runs out, the node
\* port gives the address
C19_Witness ==
    /\ Returned("CreateHub")
    /\ Has("CreateOpenShiftRoutes_nohost")
    /\ Has("getLoadBalancerIPAddress_timeout")
    /\ Last = "getNodePortIPAddress"
    /\ ret.ip = "10.0.0.1"

\* C20: whenever endpoint resolution fails, every mechanism that applies was
\* tried and ran out, and the error returned is a timeout.
C20_FailureIsExhaustedTimeout ==
    (Returned("CreateHub") /\ Last \in EndpointFailures) =>
      /\ ret.err = "timeout"
      /\ Last = "getNodePortIPAddress_timeout"
      /\ \/ Has("getLoadBalancerIPAddress_err")
         \/ Has("getLoadBalancerIPAddress_timeout")

\* ------------------------------------------------------------------------
\* Volume names of the claims
\* ------------------------------------------------------------------------

\* C21: CreateHub returns a map with entries only if the spec has
\* PersistentStorage; without it no claim is looked up and the map is empty.
C21_MapOnlyWithPersistentStorage ==
    op = "CreateHub" =>
      /\ (pc = "idle" /\ ret.pvc # EmptyMap) => spec.PersistentStorage
      /\ ~spec.PersistentStorage =>
            /\ pc # "getPVCVolumeName"
            /\ pvcVolumeNames = EmptyMap
            /\ ~HasAny(PVCFailures \cup {"getPVCVolumeName"})

\* CreateHub has returned an address for a spec that declares claims but has
\* no persistent storage
C21_Witness ==
    /\ Returned("CreateHub")
    /\ ~spec.PersistentStorage
    /\ Len(spec.PVC) > 0
    /\ ret.err = "nil"
    /\ ret.pvc = EmptyMap

\* C22: when CreateHub returns without error and the spec has
\* PersistentStorage, the map has one entry per declared claim, each a
\* volume name that is not empty; no entry is ever made with an empty name.
C22_OneVolumePerClaim ==
    op = "CreateHub" =>
      /\ \A n \in DOMAIN pvcVolumeNames :
            n \in ClaimNames /\ pvcVolumeNames[n] \in VolumeNames \ {""}
      /\ (pc = "idle" /\ ret.err = "nil" /\ spec.PersistentStorage) =>
            /\ DOMAIN ret.pvc = ClaimNames
            /\ ret.pvc = pvcVolumeNames
            /\ CountOf({"getPVCVolumeName"}) = Len(spec.PVC)

\* CreateHub has returned the volume names of two claims
C22_Witness ==
    /\ Returned("CreateHub")
    /\ ret.err = "nil"
    /\ spec.PersistentStorage
    /\ DOMAIN ret.pvc = {"pvc1", "pvc2"}
    /\ ret.pvc["pvc1"] # ret.pvc["pvc2"]

\* ------------------------------------------------------------------------
\* initPostgres
\* ------------------------------------------------------------------------

InitPostgresPcs ==
    { "initPostgres", "initPostgres_WaitForServiceEndpointReady",
      "initPostgres_InitDatabase", "initPostgres_GetHubDBPassword",
      "initPostgres_CloneJob" }

InitCalls == {"InitDatabase", "InitDatabase_err"}

CloneCalls == {"CloneJob", "CloneJob_err"}

\* the call of initPostgres made by the operation in progress has returned
InitPostgresOver == HasStep(3) /\ pc \notin InitPostgresPcs

\* C23, as stated: every call of initPostgres runs exactly one of
\* InitDatabase and CloneJob: InitDatabase iff DbPrototype is empty, CloneJob
\* iff it is not, never both and never neither.
C23_ExactlyOneOfInitOrClone ==
    (InStart /\ InitPostgresOver) =>
      /\ CountOf(InitCalls) = (IF spec.DbPrototype = "" THEN 1 ELSE 0)
      /\ CountOf(CloneCalls) = (IF spec.DbPrototype = "" THEN 0 ELSE 1)

\* C23, amended: a call of initPostgres runs at most one of InitDatabase and
\* CloneJob, InitDatabase only if DbPrototype is empty and CloneJob only if
\* it is not; it runs exactly one unless the wait for the endpoint of the
\* database or the fetch of the password of the source has failed.
C23_AtMostOneOfInitOrClone ==
    InStart =>
      /\ CountOf(InitCalls \cup CloneCalls) <= 1
      /\ HasAny(InitCalls) => spec.DbPrototype = ""
      /\ HasAny(CloneCalls) => spec.DbPrototype # "" /\ Has("GetHubDBPassword")
      /\ InitPostgresOver =>
            \/ CountOf(InitCalls \cup CloneCalls) = 1
            \/ Last \in {"WaitForServiceEndpointReady_err",
                         "GetHubDBPassword_err"}

\* a Start has cloned the database of the source
C23_Witness ==
    /\ InStart
    /\ InitPostgresOver
    /\ spec.DbPrototype # ""
    /\ Has("CloneJob")
    /\ ~HasAny(InitCalls)

\* C24: when the default passwords cannot be fetched, initPostgres returns a
\* timeout error after its last attempt: it neither waits for the endpoint
\* of the database nor runs InitDatabase or CloneJob.
C24_NoPasswordsNoBootstrap ==
    (InStart /\ Has("initPostgres_GetDefaultPasswords_err")) =>
      /\ Last = "initPostgres_GetDefaultPasswords_err"
      /\ pc = "idle"
      /\ ret.err = "timeout"

\* ------------------------------------------------------------------------
\* The bounded polls
\* ------------------------------------------------------------------------

PollPcs ==
    {"getPVCVolumeName", "getLoadBalancerIPAddress", "getNodePortIPAddress"}

AttemptsOf(l) ==
    CASE l = "getPVCVolumeName" -> PVCAttempts
      [] l = "getLoadBalancerIPAddress" -> LoadBalancerAttempts
      [] l = "getNodePortIPAddress" -> NodePortAttempts

\* a poll that is about to look has looked fewer times than its bound
C25_AttemptsBelowBound == pc \in PollPcs => i < AttemptsOf(pc)

\* a poll starts counting at zero, every look that finds nothing counts one,
\* and the look that ends in the timeout is the last one the bound allows;
\* the timeout of a claim or of the node port is what CreateHub returns
C25_StepOfPoll ==
    /\ (pc' \in PollPcs /\ pc' # pc) => i' = 0
    /\ (pc \in PollPcs /\ pc' = pc /\ pvcIdx' = pvcIdx) => i' = i + 1
    /\ (pc \in PollPcs /\ trace' # trace
          /\ Last' \in { "getPVCVolumeName_timeout",
                         "getLoadBalancerIPAddress_timeout",
                         "getNodePortIPAddress_timeout" }) =>
          /\ i = AttemptsOf(pc) - 1
          /\ pc = "getLoadBalancerIPAddress" => pc' = "getNodePortIPAddress"
          /\ pc # "getLoadBalancerIPAddress" =>
                pc' = "idle" /\ ret'.err = "timeout"

\* C25: a poll (60 looks for the volume name of a claim, 10 for the address
\* of the load balancer, 10 for that of the node port) whose looks neither
\* find anything nor fail looks exactly as often as its bound says, then
\* ends in a timeout error; it never looks more often than that.
C25_PollsAreBounded ==
    [](C25_AttemptsBelowBound) /\ [][C25_StepOfPoll]_vars

\* the poll of the load balancer and then that of the node port have run out
C25_Witness ==
    /\ Returned("CreateHub")
    /\ Has("getLoadBalancerIPAddress_timeout")
    /\ Last = "getNodePortIPAddress_timeout"
    /\ ret.err = "timeout"
    /\ i = NodePortAttempts

\* ------------------------------------------------------------------------
\* CreateHub from end to end
\* ------------------------------------------------------------------------

\* the calls of a CreateHub that initializes its own database and finds its
\* address at the node port
NodePortRun ==
    << "init", "Run_init", "GetDefaultPasswords", "Run_config",
       "Run_postgres", "initPostgres_GetDefaultPasswords",
       "WaitForServiceEndpointReady", "InitDatabase",
       "addAnyUIDToServiceAccount", "Run_hub", "Run_expose", "ValidatePods",
       "Sleep", "getLoadBalancerIPAddress_timeout", "getNodePortIPAddress" >>

\* a known size, no persistent storage, no external database, no database
\* to clone, no route client, no ingress at the load balancer, an address at
\* the node port, and no call has failed
NodePortCase ==
    /\ op = "CreateHub"
    /\ kubeConfigOk /\ ~routeClient
    /\ ~InvalidFlavor(spec)
    /\ ~spec.PersistentStorage /\ ~spec.ExternalPostgres
    /\ spec.DbPrototype = ""
    /\ faults = 0
    /\ ~Has("getLoadBalancerIPAddress")
    /\ ~Has("getNodePortIPAddress_timeout")

\* C26: in that case CreateHub applies the config batch, the database batch,
\* initializes the database, applies the application batch and the exposure
\* batch and takes the address of the node port, in this order; it returns
\* that address, an empty map, fatal = false and no error.
C26_NodePortRun ==
    NodePortCase =>
      /\ Len(trace) <= Len(NodePortRun)
      /\ \A k \in 1..Len(trace) : trace[k] = NodePortRun[k]
      /\ pc = "idle" =>
            /\ trace = NodePortRun
            /\ ret = [ip |-> ipAddress, pvc |-> EmptyMap, fatal |-> FALSE,
                      err |-> "nil"]
            /\ ipAddress \in Addresses \ {""}
            /\ {"config", "postgres", "hub", "expose"} \subseteq applied

\* such a CreateHub has returned
C26_Witness ==
    /\ NodePortCase
    /\ pc = "idle"
    /\ trace = NodePortRun
    /\ ret.ip = "10.0.0.1"

\* ------------------------------------------------------------------------
\* Errors of Start and Stop
\* ------------------------------------------------------------------------

\* the calls that change what is applied on the cluster
Mutations ==
    { "Run_config", "Run_postgres", "Run_hub", "Undeploy_hub",
      "Undeploy_postgres", "Undeploy_config" }

\* C27: for a size that is no known flavor, Start and Stop return an error
\* and have applied or removed no batch, even when no call to the platform
\* fails.
C27_UnknownSizeNoMutationStartStop ==
    (op \in {"Start", "Stop"} /\ InvalidFlavor(spec) /\ faults = 0) =>
      /\ ~HasAny(Mutations)
      /\ pc = "idle" => Failed

\* C28: in Start, a failed fetch of the default passwords ends Start with an
\* error before the config batch is applied, and a failed grant to the
\* service account ends it before the application batch is applied.
C28_StartAbortsOnEveryFailure ==
    InStart =>
      /\ Has("GetDefaultPasswords_err") =>
            /\ Last = "GetDefaultPasswords_err"
            /\ pc = "idle" /\ Failed
      /\ Has("addAnyUIDToServiceAccount_err") =>
            /\ Last = "addAnyUIDToServiceAccount_err"
            /\ pc = "idle" /\ Failed

\* ------------------------------------------------------------------------
\* Start and Stop side by side
\* ------------------------------------------------------------------------

BothReturnedNil == \A t \in Threads : tpc[t] = "done" /\ tret[t] = "nil"

\* C29: nothing keeps a Start and a Stop of one instance apart, so when
\* both have returned without error the batches are those of whichever call
\* touched each batch last: the application batch can be applied without
\* the database or the config batch. What cannot be is the config batch
\* without the database batch, or the database batch without the
\* application batch, since Start applies in the order in which Stop
\* removes backwards.
C29_InterleavedStartStop ==
    BothReturnedNil =>
      /\ "config" \in applied =>
            /\ "hub" \in applied
            /\ ~spec.ExternalPostgres => "postgres" \in applied
      /\ "postgres" \in applied => "hub" \in applied

\* both calls have returned without error; the application batch is applied,
\* the config batch is removed
C29_Witness ==
    /\ BothReturnedNil
    /\ "hub" \in applied
    /\ "config" \notin applied

\* ------------------------------------------------------------------------
\* The steps of CreateHub
\* ------------------------------------------------------------------------

ExposeEvents == {"Run_expose", "Run_expose_err"}

PodsEvents == {"ValidatePods", "ValidatePods_err"}

ClaimEvents == PVCFailures \cup {"getPVCVolumeName"}

EndpointEvents ==
    RouteEvents \cup LoadBalancerEvents \cup NodePortEvents \cup {"Sleep"}

\* the step of CreateHub a call belongs to: 1 Start and what comes before
\* it, 2 the exposure batch, 3 the pods, 4 the claims, 5 the endpoint
CreateStepOf(e) ==
    CASE e \in ExposeEvents -> 2
      [] e \in PodsEvents -> 3
      [] e \in ClaimEvents -> 4
      [] e \in EndpointEvents -> 5
      [] OTHER -> 1

\* C30: CreateHub goes through Start, the exposure batch, the wait for the
\* pods, the claims and the endpoint in this order, each only after the one
\* before has succeeded: no exposure batch after a failed Start, no lookup
\* of a claim or of the endpoint before the pods were seen running.
C30_CreateHubOrder ==
    op = "CreateHub" =>
      /\ \A k \in Earlier : CreateStepOf(trace[k]) <= CreateStepOf(trace[k + 1])
      /\ (pc = "CreateHub_RunExpose" \/ HasAny(ExposeEvents)) =>
            ~HasAny(StartFailures) /\ Has("Run_hub")
      /\ (pc = "CreateHub_ValidatePods" \/ HasAny(PodsEvents)) =>
            Has("Run_expose")
      /\ (pc \in PollPcs \cup {"CreateHub_Routes", "CreateHub_Sleep"}
            \/ HasAny(ClaimEvents \cup EndpointEvents)) =>
            Has("ValidatePods")
      /\ (pc \in {"CreateHub_Routes", "CreateHub_Sleep",
                  "getLoadBalancerIPAddress", "getNodePortIPAddress"}
            \/ HasAny(EndpointEvents)) =>
            /\ ~HasAny(PVCFailures)
            /\ spec.PersistentStorage =>
                  CountOf({"getPVCVolumeName"}) = Len(spec.PVC)

\* CreateHub has returned after the application batch of its Start failed:
\* the exposure batch was not applied
C30_Witness ==
    /\ Returned("CreateHub")
    /\ Last = "Run_hub_err"
    /\ ret.fatal
    /\ "expose" \notin applied

\* ------------------------------------------------------------------------
\* The settling delay and the errors of the polls
\* ------------------------------------------------------------------------

ResolutionEvents == RouteEvents \cup LoadBalancerEvents \cup NodePortEvents

\* C31: a CreateHub that comes to the resolution of the endpoint sleeps
\* exactly once, after the exposure batch and before the first attempt of
\* any mechanism, the route included.
C31_DelayBeforeFirstAttempt ==
    op = "CreateHub" =>
      /\ CountOf({"Sleep"}) <= 1
      /\ Has("Sleep") => Has("Run_expose")
      /\ \A k \in 1..Len(trace) :
            trace[k] \in ResolutionEvents =>
               \E j \in 1..(k - 1) : trace[j] = "Sleep"

LookupErrors ==
    { "getPVCVolumeName_err", "getLoadBalancerIPAddress_err",
      "getNodePortIPAddress_err" }

\* the poll that has met an error of its lookup is over: CreateHub has
\* returned the error or, after the load balancer, is at the node port
C32_ErrorIsLast ==
    op = "CreateHub" =>
      /\ Has("getPVCVolumeName_err") =>
            /\ Last = "getPVCVolumeName_err"
            /\ pc = "idle" /\ ret.err = "GetPVC"
      /\ Has("getNodePortIPAddress_err") =>
            /\ Last = "getNodePortIPAddress_err"
            /\ pc = "idle" /\ ret.err = "GetService"
      /\ Has("getLoadBalancerIPAddress_err") =>
            /\ pc \in {"getNodePortIPAddress", "idle"}
            /\ CountOf(LoadBalancerEvents) = 1

\* the step in which a lookup fails leaves the poll
C32_StepOfError ==
    (trace' # trace /\ Last' \in LookupErrors) => pc' # pc

\* C32: in each poll an error of the lookup ends the poll at once: the error
\* is returned after this attempt and the lookup is not made again.
C32_LookupErrorEndsPoll ==
    [](C32_ErrorIsLast) /\ [][C32_StepOfError]_vars

\* GetPVC has failed for the second claim: CreateHub has returned the error
C32_Witness ==
    /\ Returned("CreateHub")
    /\ Last = "getPVCVolumeName_err"
    /\ Has("getPVCVolumeName")
    /\ ret.err = "GetPVC"

\* C33: the polls for the volume name of a claim, for the load balancer and
\* for the node port swallow an error of the platform and look again, so
\* none of them ever ends with such an error; an error of the wait for the
\* pods is not swallowed.
C33_LookupsTolerateErrors ==
    op = "CreateHub" =>
      /\ ~HasAny(LookupErrors)
      /\ Has("ValidatePods_err") => pc = "idle" /\ ret.err = "ValidatePods"

\* C37: when CreateHub returns no error, the address it returns is not
\* empty.
C37_AddressNotEmpty ==
    (Returned("CreateHub") /\ ret.err = "nil") => ret.ip # ""

\* ------------------------------------------------------------------------
\* The order of the steps of initPostgres
\* ------------------------------------------------------------------------

\* event k of the trace has event e before it
Before(k, e) == \E j \in 1..(k - 1) : trace[j] = e

\* C34: within initPostgres, InitDatabase or CloneJob starts only after the
\* wait for the endpoint of the database has succeeded; when the wait fails
\* its error is returned and neither runs; CloneJob starts only after the
\* password of the clone source has been fetched.
C34_BootstrapOrder ==
    InStart =>
      /\ \A k \in 1..Len(trace) :
            /\ trace[k] \in InitCalls \cup CloneCalls
                  => Before(k, "WaitForServiceEndpointReady")
            /\ trace[k] \in CloneCalls => Before(k, "GetHubDBPassword")
      /\ pc \in {"initPostgres_InitDatabase", "initPostgres_GetHubDBPassword",
                 "initPostgres_CloneJob"}
            => Has("WaitForServiceEndpointReady")
      /\ pc = "initPostgres_CloneJob" => Has("GetHubDBPassword")
      /\ Has("WaitForServiceEndpointReady_err") =>
            /\ Last = "WaitForServiceEndpointReady_err"
            /\ pc = "idle"
            /\ ret.err = "WaitForServiceEndpointReady"
            /\ ~HasAny(InitCalls \cup CloneCalls)
      /\ Has("GetHubDBPassword_err") =>
            /\ pc = "idle"
            /\ ret.err = "GetHubDBPassword"
            /\ ~HasAny(CloneCalls)

\* a clone has run after the wait and the fetch of the password
C34_Witness ==
    /\ Returned("Start")
    /\ Has("WaitForServiceEndpointReady")
    /\ Has("GetHubDBPassword")
    /\ Has("CloneJob")
    /\ ret.err = "nil"

\* the wait has failed and Start has returned its error
C34_WitnessWaitFailed ==
    /\ Returned("Start")
    /\ Last = "WaitForServiceEndpointReady_err"
    /\ ret.err = "WaitForServiceEndpointReady"

\* ------------------------------------------------------------------------
\* Termination of DeleteHub
\* ------------------------------------------------------------------------

\* a lookup of the namespace has reported it absent
ReportedAbsent ==
    \/ trace # <<>> /\ trace[1] = "GetNamespace_notfound"
    \/ Has("loop_notfound")

\* C35: the poll of lines 79-88 has no bound and is left exactly when a
\* lookup reports the namespace absent, so DeleteHub returns only if the
\* namespace was reported absent, at the first lookup or in the poll.
C35_ReturnsOnlyWhenReportedAbsent ==
    Returned("DeleteHub") => ReportedAbsent

\* the fairness part of C35: once DeleteNamespace has been accepted,
\* DeleteHub returns
C35_AcceptedDeletionTerminates ==
    (op = "DeleteHub" /\ Has("DeleteNamespace")) ~> (pc = "idle")

\* ------------------------------------------------------------------------
\* The dry run of the create commands
\* ------------------------------------------------------------------------

CreateCommands == {"createAlertCmd", "createBlackDuckCmd"}

\* the calls of a create command that put a resource in the cluster
CreationEvents ==
    { "CreateSecret", "CreateSecret_exists", "CRUDServiceOrRoute", "Install" }

\* C36: a create command (alert, blackduck) creates no resource in the
\* cluster before its Helm dry run has succeeded: secrets, exposure and the
\* installation come after it, and a failed dry run leaves the cluster as the
\* command found it.
C36_NothingBeforeDryRun ==
    op \in CreateCommands =>
      /\ \A k \in 1..Len(trace) :
            trace[k] \in CreationEvents => Before(k, "DryRun")
      /\ Has("DryRun_err") => ~HasAny(CreationEvents)

\* ------------------------------------------------------------------------
\* The dry run of migrateAlert
\* ------------------------------------------------------------------------

\* the calls of migrateAlert that take something of the old instance away
DestructiveEvents == {"PatchDeploymentForReplicas", "deleteComponents"}

\* C38: migrateAlert changes nothing of the existing instance before the dry
\* run of the new release has succeeded: when the dry run or a step before
\* it fails, the resources of the old instance are still there and the
\* operator still has its replicas.
C38_NothingDestroyedBeforeDryRun ==
    op = "migrateAlert" =>
      /\ \A k \in 1..Len(trace) :
            trace[k] \in DestructiveEvents => Before(k, "DryRun")
      /\ (calls = 1 /\ ~Has("DryRun")) => {"operator", "instance"} \subseteq applied

====
